---------------------------- MODULE Spec2Model ----------------------------
(***************************************************************************)
(* Cinematic Image Engine: the OFX plugin entry points (render,            *)
(* isIdentity, getRegionsOfInterest) and the tile processor                *)
(* PipelineProcessor::multiThreadProcessImages with the per-pixel modules  *)
(* and the spatial effects it drives.                                      *)
(*                                                                         *)
(* Numbers.  The program computes in float; the model computes in fixed    *)
(* point: a real v is the integer v * ONE, products and quotients are      *)
(* floored to the next smaller unit.  The float epsilon floors of the      *)
(* code (1e-7, 1e-6, 1e-4 ...) lie below one unit, so max(L, epsilon) is   *)
(* epsilon exactly when L <= 0 in the model.                               *)
(***************************************************************************)
EXTENDS Integers, Sequences, FiniteSets, TLC

\* one unit of the fixed point representation: 1.0 = ONE
ONE == 1000

\* ---------------------------------------------------------------- bounds
\* width and height of the frame (the source region of definition)
FrameW == 8
FrameH == 2

(***************************************************************************)
(* Fixed point arithmetic                                                  *)
(***************************************************************************)
IDiv(a, b) == IF b > 0 THEN a \div b ELSE (-a) \div (-b)
Mul(a, b) == (a * b) \div ONE
Div(a, b) == IDiv(a * ONE, b)
Max(a, b) == IF a >= b THEN a ELSE b
Min(a, b) == IF a <= b THEN a ELSE b
Abs(a) == IF a < 0 THEN -a ELSE a
\* (int)std::ceil(x) and (int)x of a fixed point x
Ceil(x) == -((-x) \div ONE)
Trunc(x) == IF x >= 0 THEN x \div ONE ELSE -((-x) \div ONE)

RECURSIVE ISqrtIn(_, _, _)
ISqrtIn(n, lo, hi) ==
    IF hi - lo <= 1 THEN lo
    ELSE LET mid == (lo + hi) \div 2
         IN  IF mid * mid <= n THEN ISqrtIn(n, mid, hi) ELSE ISqrtIn(n, lo, mid)
\* std::sqrt of a sum of squares of fixed point values: the root of the
\* integer is the root of the value
Sqrt(n) == IF n <= 0 THEN 0 ELSE ISqrtIn(n, 0, 46341)

\* exp2f: exact at whole exponents, linear in the fraction between them
Exp2(t) ==
    LET k == t \div ONE
        f == t - k * ONE
        base == CASE k = -2 -> ONE \div 4
                  [] k = -1 -> ONE \div 2
                  [] k = 0 -> ONE
                  [] k = 1 -> 2 * ONE
                  [] OTHER -> 4 * ONE
    IN  base + Mul(base, f)

\* std::pow(x, e) for x >= 0: exact at the exponents 0, 1 and 2, linear in
\* the exponent between them
PowPos(x, e) ==
    IF e <= ONE
    THEN ONE + Mul(e, x - ONE)
    ELSE x + Mul(e - ONE, Mul(x, x) - x)
Pow(x, e) == IF e < 0 THEN Div(ONE, Max(1, PowPos(x, -e))) ELSE PowPos(x, e)

\* std::round of a fixed point value: to the nearest whole number, halves
\* away from zero
Round(x) ==
    IF x >= 0 THEN (x + ONE \div 2) \div ONE ELSE -(((-x) + ONE \div 2) \div ONE)

\* std::tanh(x) for x >= 0: the Pade form x(27 + x^2)/(27 + 9x^2), which
\* reaches 1 at x = 3
Tanh(x) ==
    IF x >= 3 * ONE THEN ONE
    ELSE LET x2 == Mul(x, x)
         IN  Min(ONE, Div(Mul(x, 27 * ONE + x2), 27 * ONE + 9 * x2))

\* std::cos and std::sin of an angle in degrees: three decimals at the
\* multiples of 15 degrees, other angles take the nearest multiple
CosQ(d) ==
    CASE d = 0 -> 1000 [] d = 15 -> 966 [] d = 30 -> 866 [] d = 45 -> 707
      [] d = 60 -> 500 [] d = 75 -> 259 [] OTHER -> 0
Cos(deg) ==
    LET m == ((deg % 360) + 360) % 360
        h == IF m > 180 THEN 360 - m ELSE m
        q == ((h + 7) \div 15) * 15
    IN  IF q > 90 THEN -CosQ(180 - q) ELSE CosQ(q)
Sin(deg) == Cos(deg - 90)

(***************************************************************************)
(* Utils.h: scalar utilities                                               *)
(***************************************************************************)
smoothstep(edge0, edge1, x) ==
    IF edge1 <= edge0
    THEN (IF x >= edge1 THEN ONE ELSE 0)
    ELSE LET t == Max(0, Min(ONE, Div(x - edge0, edge1 - edge0)))
         IN  Mul(Mul(t, t), 3 * ONE - 2 * t)

getLuminance(r, g, b) == (2126 * r + 7152 * g + 722 * b) \div 10000

mix(x, y, a) == Mul(x, ONE - a) + Mul(y, a)


(***************************************************************************)
(* Pixels are <<r, g, b>>; buffer entries are <<r, g, b, a>>.              *)
(***************************************************************************)
Lum(px) == getLuminance(px[1], px[2], px[3])

(***************************************************************************)
(* FilmResponse.h: ColorIngestTweaks::process                              *)
(***************************************************************************)
CITExposureStep(px, p) ==
    IF p.exposureTrim # 0
    THEN LET gain == Exp2(p.exposureTrim)
         IN  <<Mul(px[1], gain), Mul(px[2], gain), Mul(px[3], gain)>>
    ELSE px

CITWhiteBalanceStep(px, p) ==
    IF p.temperature # 0 \/ p.tint # 0
    THEN LET temp == p.temperature \div 10
             tnt == p.tint \div 10
         IN  <<px[1] + temp, px[2] + tnt, px[3] - temp>>
    ELSE px

CITSaturationStep(px, p) ==
    IF p.globalSaturation # ONE
    THEN LET luma == Lum(px)
             sat == p.globalSaturation
         IN  <<luma + Mul(px[1] - luma, sat), luma + Mul(px[2] - luma, sat),
               luma + Mul(px[3] - luma, sat)>>
    ELSE px

CITChromaCeilingStep(px, p) ==
    IF p.chromaCeiling < ONE
    THEN LET luma == Lum(px)
             cr == px[1] - luma
             cg == px[2] - luma
             cb == px[3] - luma
             cMag == Sqrt(cr * cr + cg * cg + cb * cb)
             limit == p.chromaCeiling
         IN  IF cMag > limit /\ limit > 1
             THEN LET compressed == limit + Tanh(cMag - limit) \div 10
                      scale == Div(compressed, cMag)
                  IN  <<luma + Mul(cr, scale), luma + Mul(cg, scale),
                        luma + Mul(cb, scale)>>
             ELSE IF limit <= 1
                  THEN <<luma, luma, luma>>
                  ELSE px
    ELSE px

CITWhiteBiasStep(px, p) ==
    IF p.whiteBias # 0
    THEN LET luma == Lum(px)
         IN  IF luma > ONE \div 2
             THEN LET f0 == (luma - ONE \div 2) * 2
                      factor == Mul(f0, f0)
                      biasStrength == Mul(p.whiteBias \div 20, factor)
                      a == Abs(biasStrength)
                  IN  IF p.whiteBias > 0
                      THEN <<px[1] + biasStrength,
                             px[2] + (biasStrength * 8) \div 10,
                             px[3] - biasStrength>>
                      ELSE <<px[1] - a, px[2] - (a * 2) \div 10, px[3] + a>>
             ELSE px
    ELSE px

ColorIngestTweaks_process(px, p) ==
    IF ~p.enable THEN px
    ELSE CITWhiteBiasStep(
           CITChromaCeilingStep(
             CITSaturationStep(
               CITWhiteBalanceStep(CITExposureStep(px, p), p), p), p), p)

(***************************************************************************)
(* FilmResponse.h: FilmResponse::processPixel                              *)
(***************************************************************************)
\* the chroma of a pixel about the luminance Y
Chroma(px, Y) == <<px[1] - Y, px[2] - Y, px[3] - Y>>
Scale3(c, k) == <<Mul(c[1], k), Mul(c[2], k), Mul(c[3], k)>>
FromChroma(Y, c) == <<Y + c[1], Y + c[2], Y + c[3]>>
Norm3(c) == Sqrt(c[1] * c[1] + c[2] * c[2] + c[3] * c[3])

\* shadows: desaturate by bias * 0.5, then shift by bStr = bias * 0.05
PCRShadows(c, shadowW, bias, cross) ==
    IF shadowW > 0
    THEN IF ~cross
         THEN <<Mul(c[1], ONE - bias \div 2) - bias \div 20,
                Mul(c[2], ONE - bias \div 2) + ((bias \div 20) * 2) \div 10,
                Mul(c[3], ONE - bias \div 2) + ((bias \div 20) * 15) \div 10>>
         ELSE <<Mul(c[1], ONE - bias \div 2) + bias \div 20,
                Mul(c[2], ONE - bias \div 2) + (bias \div 20) \div 2,
                Mul(c[3], ONE - bias \div 2) - bias \div 20>>
    ELSE c

\* midtones: saturation boost
PCRMidtones(c, midWeight, params) ==
    IF midWeight > 0
    THEN Scale3(c, ONE + Mul(params.midtoneColorFocus, midWeight))
    ELSE c

\* highlights: shift by wStr = hStr * 0.05, then compress per channel
PCRHighlightShift(c, wStr, cross) ==
    IF ~cross
    THEN <<c[1] + wStr, c[2] + wStr \div 2, c[3] - wStr>>
    ELSE <<c[1] - wStr, c[2] + (wStr * 2) \div 10, c[3] + (wStr * 15) \div 10>>

PCRHighlights(c, highlightW, hStr, hComp, cross) ==
    IF highlightW > 0
    THEN LET t == PCRHighlightShift(c, hStr \div 20, cross)
         IN  <<Mul(t[1], ONE - hComp), Mul(t[2], ONE - hComp \div 2),
               Mul(t[3], ONE - hComp \div 5)>>
    ELSE c

PCRMix(px, Y, c, amt) ==
    <<mix(px[1], Y + c[1], amt), mix(px[2], Y + c[2], amt),
      mix(px[3], Y + c[3], amt)>>

\* the body of processPixel once Y, the chroma and the zone weights are known
PCRGrade(px, Y, c0, shadowW, highlightW, params) ==
    IF c0[1] * c0[1] + c0[2] * c0[2] + c0[3] * c0[3] = 0 THEN px
    ELSE
    LET cross == params.crossProcess
        shadowBias == IF cross THEN params.highlightWarmth
                      ELSE params.shadowCoolBias
        highlightWarmthVal == IF cross THEN params.shadowCoolBias
                              ELSE params.highlightWarmth
    IN  PCRMix(px, Y,
               PCRHighlights(
                 PCRMidtones(
                   PCRShadows(c0, shadowW, Mul(shadowBias, shadowW), cross),
                   Mul(ONE - shadowW, ONE - highlightW), params),
                 highlightW, Mul(highlightWarmthVal, highlightW),
                 Mul(params.highlightCompression, highlightW), cross),
               params.amount)

PCRFromLuma(px, Y, params) ==
    PCRGrade(px, Y, Chroma(px, Y), ONE - smoothstep(0, 300, Y),
             smoothstep(700, ONE, Y), params)

FilmResponse_processPixel(px, params) ==
    IF ~params.enable \/ params.amount <= 0 THEN px
    ELSE PCRFromLuma(px, Lum(px), params)

(***************************************************************************)
(* Re-application of a mapped luminance by ratio: v * (Lout / max(L, eps)) *)
(* with eps = 1e-7.  A luminance of at most 0 takes the floor, and the     *)
(* quotient by 1e-7 is the product by 10^7, that is by 10^4 per unit.      *)
(***************************************************************************)
EpsInv == 10000
ApplyRatio(v, Lout, L) ==
    IF L > 0 THEN Mul(v, Div(Lout, L)) ELSE v * Lout * EpsInv

(***************************************************************************)
(* TonalEngine::processPixel                                               *)
(***************************************************************************)
TonalSoftClip(L_out, softClip) ==
    IF softClip > 0
    THEN LET k == softClip * 2
         IN  IF L_out > 0 /\ L_out < ONE
             THEN LET headroom == ONE - L_out
                  IN  IF headroom < k \div 2
                      THEN LET excess == k \div 2 - headroom
                           IN  ONE - Div(k \div 2, ONE + excess * 4)
                      ELSE L_out
             ELSE IF L_out >= ONE
                  THEN Min(ONE - Div(ONE, ONE + Mul(L_out, ONE + k)), ONE)
                  ELSE L_out
    ELSE L_out

\* a map whose branch above the pivot does not add the pivot back
TonalMapNoOffset(L, params) ==
    LET safePivot == Max(params.pivot, 1)
        range == Max(ONE - safePivot, 1)
    IN  IF L <= safePivot
        THEN Mul(Pow(Max(Div(L, safePivot), 0), params.contrast), safePivot)
        ELSE Mul(Pow(Max(Div(L - safePivot, range), 0),
                     Max(params.highlightContrast, 10)), range)

TonalMap(L, params) ==
    LET safePivot == Max(params.pivot, 1)
        range == Max(ONE - safePivot, 1)
    IN  IF L <= safePivot
        THEN Mul(Pow(Max(Div(L, safePivot), 0), params.contrast), safePivot)
        ELSE safePivot + Mul(Pow(Max(Div(L - safePivot, range), 0),
                                 Max(params.highlightContrast, 10)), range)

TonalFloor(L_blend, params) ==
    IF params.blackFloor > 0 THEN Max(L_blend, params.blackFloor) ELSE L_blend

TonalReapply(px, L, L_out) ==
    <<ApplyRatio(px[1], L_out, L), ApplyRatio(px[2], L_out, L),
      ApplyRatio(px[3], L_out, L)>>

\* L_blend = L * (1 - str) + L_mapped * str, then black floor and soft clip
TonalFromLuma(px, L, str, params) ==
    TonalReapply(px, L,
        TonalSoftClip(TonalFloor(Mul(L, ONE - str) +
                                 Mul(TonalMap(L, params), str), params),
                      params.softClip))

TonalEngine_processPixel(px, params) ==
    IF params.strength <= 0 THEN px
    ELSE TonalFromLuma(px, Lum(px), Min(Max(params.strength, 0), ONE), params)

(***************************************************************************)
(* ColorEnergyEngine::process                                              *)
(***************************************************************************)
\* chroma *= 1 + separation * shadowAtt * highAtt
EnergySeparation(c, luma, p) ==
    IF p.separation # 0
    THEN LET shadowAtt == IF luma < p.shadowBias THEN Div(luma, p.shadowBias)
                          ELSE ONE
             highAtt == IF p.highlightRollOff > 0 /\
                           luma > ONE - p.highlightRollOff
                        THEN Max(0, Div(ONE - luma, p.highlightRollOff))
                        ELSE ONE
         IN  Scale3(c, ONE + Mul(p.separation, Mul(shadowAtt, highAtt)))
    ELSE c

\* chroma *= pow(sat, density) / sat
EnergyDensity(c, sat, p) ==
    IF p.density # ONE /\ sat > 0
    THEN Scale3(c, Div(Pow(sat, p.density), sat))
    ELSE c

\* chroma *= mix(vibrance, 1, min(sat * 2, 1))
EnergyVibrance(c, sat, p) ==
    IF p.vibrance # ONE /\ sat > 0
    THEN Scale3(c, mix(p.vibrance, ONE, Min(sat * 2, ONE)))
    ELSE c

EnergyAfterDensity(c2, luma, p) ==
    FromChroma(luma, EnergyVibrance(c2, Norm3(c2), p))

EnergyAfterSeparation(c1, luma, p) ==
    EnergyAfterDensity(EnergyDensity(c1, Norm3(c1), p), luma, p)

EnergyFromLuma(px, luma, p) ==
    IF luma <= 0 THEN px
    ELSE EnergyAfterSeparation(EnergySeparation(Chroma(px, luma), luma, p),
                               luma, p)

ColorEnergyEngine_process(px, p) ==
    IF ~p.enable THEN px ELSE EnergyFromLuma(px, Lum(px), p)

(***************************************************************************)
(* HighlightProtection::processPixel                                       *)
(***************************************************************************)
\* a shoulder that compresses only the part above the threshold
compressShoulder(val, params) ==
    IF val < params.threshold THEN val
    ELSE params.threshold +
         Div(val - params.threshold,
             ONE + Mul(params.rolloff, val - params.threshold))

compress(val, params) ==
    IF val < params.threshold THEN val
    ELSE Div(val, ONE + Mul(params.rolloff, val - params.threshold))

HighlightProtection_processPixel(px, params) ==
    IF params.preserveColor
    THEN LET L == Lum(px)
             L_new == compress(L, params)
         IN  <<ApplyRatio(px[1], L_new, L), ApplyRatio(px[2], L_new, L),
               ApplyRatio(px[3], L_new, L)>>
    ELSE <<compress(px[1], params), compress(px[2], params),
           compress(px[3], params)>>

(***************************************************************************)
(* SplitToning.h                                                           *)
(***************************************************************************)
precomputeVectors(params) ==
    [params EXCEPT !.shadowPb = Cos(params.shadowHue),
                   !.shadowPr = Sin(params.shadowHue),
                   !.highlightPb = Cos(params.highlightHue),
                   !.highlightPr = Sin(params.highlightHue),
                   !.midtonePb = Cos(params.midtoneHue),
                   !.midtonePr = Sin(params.midtoneHue)]

\* the toning offsets added to red and blue with green left as it was
SplitToning_tintOnly(px, params) ==
    IF ~params.enable \/ params.strength <= 0 THEN px
    ELSE <<px[1] + (params.shadowPr * params.strength) \div (20 * ONE), px[2],
           px[3] + (params.shadowPb * params.strength) \div (20 * ONE)>>

SplitToning_processPixel(px, params) ==
    IF ~params.enable \/ params.strength <= 0 THEN px
    ELSE
    LET L == Lum(px)
        shadowW0 == ONE - smoothstep(0, 400, L)
        highlightW0 == smoothstep(600, ONE, L)
        midtoneW == Mul(ONE - shadowW0, ONE - highlightW0)
        shadowW == Mul(shadowW0, ONE - params.balance)
        highlightW == Mul(highlightW0, ONE + params.balance)
        dPb0 == Mul(Mul(params.shadowPb, shadowW) +
                    Mul(params.highlightPb, highlightW), params.strength) \div 20
        dPr0 == Mul(Mul(params.shadowPr, shadowW) +
                    Mul(params.highlightPr, highlightW), params.strength) \div 20
        mStr == Mul(Mul(params.midtoneSaturation, midtoneW),
                    params.strength) \div 20
        dPb == IF params.midtoneSaturation > 0
               THEN dPb0 + Mul(params.midtonePb, mStr) ELSE dPb0
        dPr == IF params.midtoneSaturation > 0
               THEN dPr0 + Mul(params.midtonePr, mStr) ELSE dPr0
        newR == px[1] + (dPr * 10000) \div 6350
        newB == px[3] + (dPb * 10000) \div 5389
        newG == (L * 10000 - 2126 * newR - 722 * newB) \div 7152
    IN  <<newR, newG, newB>>

(***************************************************************************)
(* uint32_t arithmetic of the hashes.  A 32 bit word is <<hi, lo>>, two    *)
(* 16 bit halves; every operation is taken modulo 2^32 as in the code.     *)
(***************************************************************************)
U32(x) ==
    IF x >= 0 THEN <<(x \div 65536) % 65536, x % 65536>>
    ELSE <<65535 - ((((-x) - 1) \div 65536) % 65536),
           65535 - (((-x) - 1) % 65536)>>

\* the 32 bit product of two 16 bit halves, as <<hi, lo>>
Mul16(a, b) ==
    LET p0 == (a % 256) * b
        p1 == (a \div 256) * b
        loSum == p0 + (p1 % 256) * 256
    IN  <<(p1 \div 256 + loSum \div 65536) % 65536, loSum % 65536>>

U32Mul(a, b) ==
    LET ll == Mul16(a[2], b[2])
        cross == Mul16(a[1], b[2])[2] + Mul16(a[2], b[1])[2]
    IN  <<(ll[1] + cross) % 65536, ll[2]>>

U32Add(a, b) ==
    LET lo == a[2] + b[2]
    IN  <<(a[1] + b[1] + lo \div 65536) % 65536, lo % 65536>>

RECURSIVE Xor16(_, _, _)
Xor16(a, b, n) ==
    IF n = 0 THEN 0
    ELSE ((a + b) % 2) + 2 * Xor16(a \div 2, b \div 2, n - 1)

U32Xor(a, b) == <<Xor16(a[1], b[1], 16), Xor16(a[2], b[2], 16)>>

\* h >> 13
U32Shr13(h) == <<h[1] \div 8192, (h[1] % 8192) * 8 + h[2] \div 8192>>

\* (h & 0x00FFFFFF) / float(0x01000000), a value in 0 .. ONE - 1
U32Unit24(h) == ((((h[1] % 256) * 65536 + h[2]) \div 1024) * ONE) \div 16384

\* the common body of FilmGrain::hash2D and Dither::ditherHash
HashWord(x, y, seed) ==
    LET h0 == U32Add(U32Mul(U32(x), <<5718, 26545>>),
                     U32Mul(U32(y), <<10196, 60207>>))
        h1 == U32Xor(U32Xor(h0, U32Shr13(h0)), seed)
    IN  U32Mul(h1, <<19441, 40801>>)

(***************************************************************************)
(* FilmGrain (FilmGrain.h)                                                 *)
(***************************************************************************)
hash2D(x, y, seed) == U32Unit24(HashWord(x, y, U32(seed)))

gaussianApprox(n1, n2) == n1 + n2 - ONE

computeWeight(L, p) ==
    IF L < ONE \div 2
    THEN LET t == smoothstep(0, ONE \div 2, L)
             sw == Min(ONE, Max(0, p.shadowWeight))
             mw == Min(ONE, Max(0, p.midWeight))
         IN  Mul(sw, ONE - t) + Mul(mw, t)
    ELSE LET t == smoothstep(ONE \div 2, ONE, L)
             mw == Min(ONE, Max(0, p.midWeight))
             hw == Min(ONE, Max(0, p.highlightWeight))
         IN  Mul(mw, ONE - t) + Mul(hw, t)

\* the temporally quantized seed of applyGrain
effectiveSeed(frameSeed, p) ==
    IF p.temporalSpeed < ONE
    THEN LET interval == Max(ONE, 24 * (ONE - p.temporalSpeed))
         IN  Trunc(Div(frameSeed * ONE, interval)) * Trunc(interval)
    ELSE frameSeed

\* int(x / scale) of applyGrain
grainCell(x, imageW, imageH, p) ==
    LET minDim == Min(imageW, imageH)
        rawSize == Max(1, p.size)
        scale == Max(ONE, (15 * minDim) \div 10 + (rawSize * 5 * minDim) \div ONE)
    IN  Trunc(Div(x * ONE, scale))

FilmGrain_applyGrain(px, x, y, frameSeed, imageW, imageH, p) ==
    IF ~p.enable \/ p.amount <= 0 THEN px
    ELSE
    LET gx == grainCell(x, imageW, imageH, p)
        gy == grainCell(y, imageW, imageH, p)
        seed == effectiveSeed(frameSeed, p)
        L == Lum(px)
        strength == Mul(p.amount, computeWeight(L, p))
        grainOf(sd) == gaussianApprox(hash2D(gx, gy, sd),
                                      hash2D(gx + 17, gy + 29, sd))
    IN  IF p.chromatic
        THEN <<Mul(px[1], ONE + Mul(grainOf(seed), strength)),
               Mul(px[2], ONE + Mul(grainOf(seed + 7), strength)),
               Mul(px[3], ONE + Mul(grainOf(seed + 13), strength))>>
        ELSE LET grainSignal == ONE + Mul(grainOf(seed), strength)
             IN  <<Mul(px[1], grainSignal), Mul(px[2], grainSignal),
                   Mul(px[3], grainSignal)>>

(***************************************************************************)
(* Dither (Dither.h)                                                       *)
(***************************************************************************)
ditherHash(x, y, seed) == U32Unit24(HashWord(x, y, seed)) - ONE \div 2

Dither_process(px, x, y, params) ==
    IF ~params.enable \/ params.amount <= 0 THEN px
    ELSE
    LET nR == ditherHash(x, y, <<41394, 50132>>) +
              ditherHash(x + 1, y, <<41394, 50132>>)
        nG == ditherHash(x, y, <<58870, 42936>>) +
              ditherHash(x + 1, y, <<58870, 42936>>)
        nB == ditherHash(x, y, <<51664, 57842>>) +
              ditherHash(x + 1, y, <<51664, 57842>>)
        \* nX * (amount / 512)
    IN  <<px[1] + (nR * params.amount) \div (512 * ONE),
          px[2] + (nG * params.amount) \div (512 * ONE),
          px[3] + (nB * params.amount) \div (512 * ONE)>>

(***************************************************************************)
(* Utils.h: the box blurs.  A buffer of w * h pixels is a sequence of      *)
(* <<r, g, b, a>>; the pixel the code indexes (y * w + x) * 4 is element   *)
(* y * w + x + 1.  Each pass is the sliding-window accumulator of the      *)
(* code: the sum is seeded for x = 0 and advanced by one sample added and  *)
(* one removed, both clamped into the row (column).                        *)
(***************************************************************************)
At(buf, i) == buf[i + 1]

\* a buffer given by its pixels, built element by element
Buffer(n, f(_)) == [i \in 1 .. n |-> f(i - 1)] \o << >>

\* a seed that counts the first sample r times, not r + 1 times
RECURSIVE SeedTail(_, _, _, _, _)
SeedTail(line, n, r, c, i) ==
    IF i > r THEN 0
    ELSE At(line, Min(i, n - 1))[c] + SeedTail(line, n, r, c, i + 1)
SeedSumShort(line, n, r, c, i) ==
    At(line, 0)[c] * r + SeedTail(line, n, r, c, 1)

\* the seed of the accumulators: line[0] * (r + 1) + line[min(i, n-1)], i = 1..r
RECURSIVE SeedSum(_, _, _, _, _)
SeedSum(line, n, r, c, i) ==
    IF i = 0 THEN At(line, 0)[c] * (r + 1) + SeedSum(line, n, r, c, 1)
    ELSE IF i > r THEN 0
    ELSE At(line, Min(i, n - 1))[c] + SeedSum(line, n, r, c, i + 1)

\* a window that advances by the sample at x + r, not x + r + 1
RECURSIVE SlideLate(_, _, _, _, _)
SlideLate(line, n, r, x, sum) ==
    IF x >= n THEN << >>
    ELSE LET add == At(line, Min(x + r, n - 1))
             sub == At(line, Max(x - r, 0))
             next == <<sum[1] + add[1] - sub[1], sum[2] + add[2] - sub[2],
                       sum[3] + add[3] - sub[3]>>
         IN  << <<sum[1] \div (2 * r + 1), sum[2] \div (2 * r + 1),
                  sum[3] \div (2 * r + 1), At(line, x)[4]>> >>
             \o SlideLate(line, n, r, x + 1, next)

\* the loop over x with the accumulators sum = <<sumR, sumG, sumB>>: output
\* x is sum * invK with alpha passed through, then the window advances
RECURSIVE Slide(_, _, _, _, _)
Slide(line, n, r, x, sum) ==
    IF x >= n THEN << >>
    ELSE LET add == At(line, Min(x + r + 1, n - 1))
             sub == At(line, Max(x - r, 0))
             next == <<sum[1] + add[1] - sub[1], sum[2] + add[2] - sub[2],
                       sum[3] + add[3] - sub[3]>>
         IN  << <<sum[1] \div (2 * r + 1), sum[2] \div (2 * r + 1),
                  sum[3] \div (2 * r + 1), At(line, x)[4]>> >>
             \o Slide(line, n, r, x + 1, next)

\* one blurred line of n pixels
BlurLine(line, n, r) ==
    Slide(line, n, r, 0, <<SeedSum(line, n, r, 1, 0), SeedSum(line, n, r, 2, 0),
                           SeedSum(line, n, r, 3, 0)>>)

\* rows y .. h - 1 of the buffer, each blurred, concatenated
RECURSIVE BlurRows(_, _, _, _, _)
BlurRows(src, w, h, r, y) ==
    IF y >= h THEN << >>
    ELSE BlurLine(SubSeq(src, y * w + 1, y * w + w), w, r)
         \o BlurRows(src, w, h, r, y + 1)

\* column x of the buffer from row y on, and the blurred columns x .. w - 1
RECURSIVE Column(_, _, _, _, _)
Column(src, w, h, x, y) ==
    IF y >= h THEN << >>
    ELSE <<At(src, y * w + x)>> \o Column(src, w, h, x, y + 1)

\* the blurred columns x .. xEnd - 1 of one strip
RECURSIVE BlurColumns(_, _, _, _, _, _)
BlurColumns(src, w, h, r, x, xEnd) ==
    IF x >= xEnd THEN << >>
    ELSE <<BlurLine(Column(src, w, h, x, 0), h, r)>>
         \o BlurColumns(src, w, h, r, x + 1, xEnd)

STRIP_W == 8

\* the loop over the strips x0 = 0, STRIP_W, ..: cols = min(STRIP_W, w - x0)
RECURSIVE Strips(_, _, _, _, _)
Strips(src, w, h, r, x0) ==
    IF x0 >= w THEN << >>
    ELSE BlurColumns(src, w, h, r, x0, x0 + Min(STRIP_W, w - x0))
         \o Strips(src, w, h, r, x0 + STRIP_W)

\* the positions of a line of n samples the seed and the sliding loop touch
LineIndices(n, r) ==
    {0} \cup {Min(i, n - 1) : i \in 1 .. r}
        \cup UNION {{x, Min(x + r + 1, n - 1), Max(x - r, 0)} : x \in 0 .. n - 1}

\* the pixels boxBlurH (boxBlurH1D) reads from src or writes to dst
boxBlurHIndices(w, h, r) ==
    {y * w + k : y \in 0 .. h - 1, k \in LineIndices(w, r)}

\* the pixels boxBlurV reads or writes, strip by strip
boxBlurVIndices(w, h, r) ==
    UNION {{k * w + x0 + c : k \in LineIndices(h, r),
                             c \in 0 .. Min(STRIP_W, w - x0) - 1} :
             x0 \in {x \in 0 .. w - 1 : x % STRIP_W = 0}}

boxBlurH(src, w, h, r) ==
    IF r < 1 THEN src ELSE BlurRows(src, w, h, r, 0)

\* the strips of STRIP_W columns partition the columns; every column is
\* accumulated on its own
\* the buffer whose columns are cols
FromColumns(cols, w, h) ==
    Buffer(w * h, LAMBDA i : cols[(i % w) + 1][(i \div w) + 1])

boxBlurV(src, w, h, r) ==
    IF r < 1 THEN src ELSE FromColumns(Strips(src, w, h, r, 0), w, h)

\* sigma is fixed point; the result is <<radii[0], radii[1], radii[2]>>
boxRadiiForGaussian(sigma) ==
    LET s12 == 12 * ((sigma * sigma) \div ONE)
        wl0 == Sqrt((s12 + ONE) \div ONE)
        wl == IF wl0 % 2 = 0 THEN wl0 - 1 ELSE wl0
        wu == wl + 2
        mIdeal == IDiv(s12 - (wl * wl * 3 + wl * 4 + 3) * ONE, -4 * wl - 4)
        m == Round(mIdeal)
        rad(i) == LET wd == IF i < m THEN wl ELSE wu
                  IN  Max(0, (wd - 1) \div 2)
    IN  <<rad(0), rad(1), rad(2)>>

\* gaussianBlur(src, dst, tmp, w, h, r) as the orchestrator calls it, in
\* place (src == dst): tmp after the copy of the third horizontal pass
\* (memcpy(tmp, src); H and V with radii[0]; H and V with radii[1]; H with
\* radii[2]; memcpy(tmp, dst)), and dst after the last vertical pass
gaussianTmp(buf, w, h, radii) ==
    boxBlurH(boxBlurV(boxBlurH(boxBlurV(boxBlurH(buf, w, h, radii[1]),
                                        w, h, radii[1]),
                               w, h, radii[2]),
                      w, h, radii[2]),
             w, h, radii[3])

gaussianDst(t, w, h, radii) == [dst |-> boxBlurV(t, w, h, radii[3]), tmp |-> t]

\* the passes of gaussianBlur(src, dst, tmp, w, h, r) by the buffers they
\* are handed: src == dst makes tmp the source of the first pass
Pass(fn, rd, wr) == [fn |-> fn, rd |-> rd, wr |-> wr]

gaussianChain(actualSrc, dst, tmp) ==
    <<Pass("boxBlurH", actualSrc, dst), Pass("boxBlurV", dst, tmp),
      Pass("boxBlurH", tmp, dst), Pass("boxBlurV", dst, tmp),
      Pass("boxBlurH", tmp, dst), Pass("boxBlurV", tmp, dst)>>

\* the passes without the copy of an in-place source
gaussianPassesNoCopy(src, dst, tmp, r) ==
    IF r < 1 THEN << >> ELSE gaussianChain(src, dst, tmp)

gaussianPasses(src, dst, tmp, r) ==
    IF r < 1 THEN << >>
    ELSE gaussianChain(IF src = dst THEN tmp ELSE src, dst, tmp)

gaussianBlur(buf, tmp, w, h, r) ==
    IF r < 1 THEN [dst |-> buf, tmp |-> tmp]
    ELSE gaussianDst(gaussianTmp(buf, w, h,
                         boxRadiiForGaussian(Max((r * ONE) \div 2, ONE \div 10))),
                     w, h, boxRadiiForGaussian(Max((r * ONE) \div 2, ONE \div 10)))

(***************************************************************************)
(* DreamyMist (DreamyMist.h)                                               *)
(***************************************************************************)
computeMistSource(px, params) ==
    IF ~params.enable THEN <<0, 0, 0>>
    ELSE
    LET L == Lum(px)
        softRange == Max(1, params.softness)
        mask0 == smoothstep(params.threshold, params.threshold + softRange, L)
        mask == IF params.depthBias # ONE /\ mask0 > 0
                THEN Pow(mask0, params.depthBias) ELSE mask0
        cb == params.colorBias
        biasR == IF cb > 0 THEN ONE + cb \div 2
                 ELSE IF cb < 0 THEN ONE - Abs(cb) \div 5 ELSE ONE
        biasB == IF cb > 0 THEN ONE - cb \div 5
                 ELSE IF cb < 0 THEN ONE + Abs(cb) \div 2 ELSE ONE
        mistL == Mul(L, mask)
    IN  <<Mul(mistL, biasR), mistL, Mul(mistL, biasB)>>

applyMist(px, m, params) ==
    IF ~params.enable THEN px
    ELSE LET s == params.strength
         IN  <<px[1] + Mul(m[1], s), px[2] + Mul(m[2], s), px[3] + Mul(m[3], s)>>

(***************************************************************************)
(* DreamyBlur (DreamyBlur.h)                                               *)
(***************************************************************************)
softLight(base, blend) ==
    IF blend < ONE \div 2
    THEN base - Mul(Mul(ONE - 2 * blend, base), ONE - base)
    ELSE LET s == IF base > 0 THEN Sqrt(base * ONE) ELSE 0
         IN  base + Mul(2 * blend - ONE, s - base)

applyDreamyBlur(px, bl, params) ==
    IF ~params.enable THEN px
    ELSE
    LET lumaBase == Lum(px)
        lumaBlend == Lum(bl)
        lumaResult == softLight(lumaBase, lumaBlend)
        ratio == IF lumaBase > 0 THEN Div(lumaResult, lumaBase) ELSE ONE
        sl0 == <<Mul(px[1], ratio), Mul(px[2], ratio), Mul(px[3], ratio)>>
        sat == params.saturation
        sl == IF Abs(sat - ONE) > 1
              THEN <<lumaResult + Mul(sl0[1] - lumaResult, sat),
                     lumaResult + Mul(sl0[2] - lumaResult, sat),
                     lumaResult + Mul(sl0[3] - lumaResult, sat)>>
              ELSE sl0
        width == 200 + (8 * params.tonalSoftness) \div 10
        shadowWeight == ONE - smoothstep(0, width, lumaBase)
        highlightWeight == smoothstep(ONE - width, ONE, lumaBase)
        maskVal == Mul(shadowWeight, params.shadowAmt) +
                   Mul(highlightWeight, params.highlightAmt)
        finalMix == Mul(maskVal, params.strength)
    IN  <<mix(px[1], sl[1], finalMix), mix(px[2], sl[2], finalMix),
          mix(px[3], sl[3], finalMix)>>

(***************************************************************************)
(* CinematicGlow (CinematicGlow.h)                                         *)
(***************************************************************************)
computeGlowSource(px, params) ==
    IF ~params.enable THEN <<0, 0, 0>>
    ELSE
    LET L == Lum(px)
        mask == smoothstep(params.threshold,
                           params.threshold + params.knee + 1, L)
        f == params.colorFidelity
        baseR == mix(Mul(L, mask), Mul(px[1], mask), f)
        baseG == mix(Mul(L, mask), Mul(px[2], mask), f)
        baseB == mix(Mul(L, mask), Mul(px[3], mask), f)
        w == params.warmth
    IN  IF w > 0
        THEN <<Mul(baseR, ONE + w \div 2), baseG, Mul(baseB, ONE - w \div 5)>>
        ELSE IF w < 0
             THEN <<Mul(baseR, ONE - Abs(w) \div 5), baseG,
                    Mul(baseB, ONE + Abs(w) \div 2)>>
             ELSE <<baseR, baseG, baseB>>

applyGlow(px, gl, params) ==
    IF ~params.enable THEN px
    ELSE LET a == params.amount
         IN  <<px[1] + Mul(gl[1], a), px[2] + Mul(gl[2], a),
               px[3] + Mul(gl[3], a)>>

(***************************************************************************)
(* AnamorphicStreak (AnamorphicStreak.h)                                   *)
(***************************************************************************)
boxBlurH1D(src, w, h, r) ==
    IF r < 1 THEN src ELSE BlurRows(src, w, h, r, 0)

computeStreakSource(px, params) ==
    LET L == Lum(px)
        mask == smoothstep(params.threshold, params.threshold + 300, L)
    IN  IF mask <= 1 THEN <<0, 0, 0>>
        ELSE <<Mul(px[1], mask), Mul(px[2], mask), Mul(px[3], mask)>>

applyStreak(px, sIn, params) ==
    IF params.amount <= 0 THEN px
    ELSE
    LET amt == params.amount
        tint == params.tint
        st == IF tint > 0
              THEN <<Mul(sIn[1], ONE + (tint * 3) \div 10),
                     Mul(sIn[2], ONE + tint \div 10),
                     Mul(sIn[3], ONE - tint \div 5)>>
              ELSE IF tint < 0
                   THEN <<Mul(sIn[1], ONE - (-tint) \div 5), sIn[2],
                          Mul(sIn[3], ONE + ((-tint) * 3) \div 10)>>
                   ELSE sIn
    IN  <<px[1] + Mul(st[1], amt), px[2] + Mul(st[2], amt),
          px[3] + Mul(st[3], amt)>>

(***************************************************************************)
(* Sharpening (Sharpening.h)                                               *)
(***************************************************************************)
eSoftDetail == 0
eMicroContrast == 1
eEdgeAware == 2
eDeconvolution == 3

applySharpen(px, bl, p) ==
    IF ~p.enable \/ p.amount <= 0 THEN px
    ELSE
    LET L == Lum(px)
        bL == Lum(bl)
        detail == L - bL
        limit == ONE \div 10
        d1 == IF p.type = eMicroContrast THEN (detail * 12) \div 10
              ELSE IF p.type = eDeconvolution
                   THEN LET up == IF detail > limit
                                  THEN limit + (detail - limit) \div 10
                                  ELSE detail
                        IN  IF up < -limit THEN -limit + (up + limit) \div 10
                            ELSE up
                   ELSE detail
        thresh == p.noiseSuppression \div 20
        d2 == IF p.noiseSuppression > 0 /\ Abs(d1) < thresh
              THEN Mul(d1, Div(Abs(d1), thresh)) ELSE d1
        protStrength == IF p.type = eEdgeAware
                        THEN Max(ONE \div 2, p.edgeProtection)
                        ELSE p.edgeProtection
        d3 == IF (p.type = eEdgeAware \/ p.edgeProtection > 0) /\ Abs(d2) > 50
              THEN Mul(d2, Div(ONE, ONE + Mul(Abs(d2) - 50, protStrength) * 20))
              ELSE d2
        w1 == IF p.shadowProtection > 0
              THEN ONE - Mul(ONE - Min(L * 4, ONE), p.shadowProtection)
              ELSE ONE
        w2 == IF p.highlightProtection > 0
              THEN Mul(w1, ONE - Mul((Max(0, L - 600) * 25) \div 10,
                                     p.highlightProtection))
              ELSE w1
        strength == Mul(Mul(p.amount, w2), ONE \div 2 + p.detailAmount)
        diff == Mul(d3, strength)
    IN  <<px[1] + diff, px[2] + diff, px[3] + diff>>

(***************************************************************************)
(* Halation (Halation.h), the variant the orchestrator calls: the energy   *)
(* is the red channel and the scatter colour is rotated by hueShift        *)
(***************************************************************************)
computeHalationSource(px, skinMask, params) ==
    IF ~params.enable \/ params.amount <= 0 THEN <<0, 0, 0>>
    ELSE
    LET L == Lum(px)
        mask == Mul(smoothstep(params.threshold,
                               params.threshold + params.knee, L),
                    ONE - skinMask)
    IN  IF mask <= 1 THEN <<0, 0, 0>>
        ELSE
        LET cosH == Cos(params.hueShift)
            sinH == Sin(params.hueShift)
            mixG == Max(0, ONE \div 10 + (params.warmth * 4) \div 10)
            sourceEnergy == px[1]
            third == (ONE - cosH) \div 3
            sq3 == (sinH * 577) \div ONE
            e == Mul(sourceEnergy, mask)
        IN  <<Mul(e, (cosH + third) + Mul(mixG, third - sq3)),
              Mul(e, (sq3 + third) + Mul(mixG, cosH + third)),
              Mul(e, (third - sq3) + Mul(mixG, sq3 + third))>>

applyHalation(px, hBlur, params) ==
    IF ~params.enable \/ params.amount <= 0 THEN px
    ELSE
    LET amt == params.amount
        sat == Max(0, Min(ONE, params.saturation))
        hL == Lum(hBlur)
        h == IF sat < ONE
             THEN <<mix(hL, hBlur[1], sat), mix(hL, hBlur[2], sat),
                    mix(hL, hBlur[3], sat)>>
             ELSE hBlur
    IN  <<px[1] + Mul(h[1], amt), px[2] + Mul(h[2], amt),
          px[3] + Mul(h[3], amt)>>

(***************************************************************************)
(* ChromaticAberration (ChromaticAberration.h).  Coordinates rodX1, rodY1, *)
(* imgW, imgH, bufX1, bufY1 are whole numbers; u, v are fixed point.       *)
(***************************************************************************)
\* (int)px, (int)py of sampleChannel: the position before it is clamped
samplePos(su, sv, imgW, imgH, rodX1, rodY1, bufX1, bufY1) ==
    <<Trunc(su * imgW + (rodX1 - bufX1) * ONE),
      Trunc(sv * imgH + (rodY1 - bufY1) * ONE)>>

\* ix, iy of sampleChannel
sampleIndex(pos, w, h) ==
    <<Max(0, Min(pos[1], w - 1)), Max(0, Min(pos[2], h - 1))>>

sampleChannel(src, su, sv, imgW, imgH, rodX1, rodY1, bufX1, bufY1, w, h, channel) ==
    LET i == sampleIndex(samplePos(su, sv, imgW, imgH, rodX1, rodY1,
                                   bufX1, bufY1), w, h)
    IN  At(src, i[2] * w + i[1])[channel]

\* <<uR, vR, uB, vB>> of the pixel x, y of the buffer
caCoords(x, y, rodX1, rodY1, imgW, imgH, bufX1, bufY1, params) ==
    LET cx == ONE \div 2 + params.centerX \div 2
        cy == ONE \div 2 + params.centerY \div 2
        strength == params.amount \div 50
        invW == ONE \div Max(1, imgW)
        invH == ONE \div Max(1, imgH)
        u == (bufX1 + x - rodX1) * invW
        v == (bufY1 + y - rodY1) * invH
        du == u - cx
        dv == v - cy
        dist == Sqrt(du * du + dv * dv)
        shiftR == Mul(dist, strength)
        shiftB == -Mul(dist, strength)
    IN  <<u + Mul(du, shiftR), v + Mul(dv, shiftR),
          u + Mul(du, shiftB), v + Mul(dv, shiftB)>>

\* a loop that resamples green with the red channel's coordinates
CAResampleGreen(src, w, h, rodX1, rodY1, imgW, imgH, bufX1, bufY1, params) ==
    LET at(x, y) ==
            LET c == caCoords(x, y, rodX1, rodY1, imgW, imgH, bufX1, bufY1,
                              params)
            IN  <<sampleChannel(src, c[1], c[2], imgW, imgH, rodX1, rodY1,
                                bufX1, bufY1, w, h, 1),
                  sampleChannel(src, c[1], c[2], imgW, imgH, rodX1, rodY1,
                                bufX1, bufY1, w, h, 2),
                  sampleChannel(src, c[3], c[4], imgW, imgH, rodX1, rodY1,
                                bufX1, bufY1, w, h, 3),
                  At(src, y * w + x)[4]>>
    IN  Buffer(w * h, LAMBDA i : at(i % w, i \div w))

\* the loop over the pixels: red and blue resampled, green and alpha copied
CAResample(src, w, h, rodX1, rodY1, imgW, imgH, bufX1, bufY1, params) ==
    LET at(x, y) ==
            LET c == caCoords(x, y, rodX1, rodY1, imgW, imgH, bufX1, bufY1,
                              params)
                idx == y * w + x
            IN  <<sampleChannel(src, c[1], c[2], imgW, imgH, rodX1, rodY1,
                                bufX1, bufY1, w, h, 1),
                  At(src, idx)[2],
                  sampleChannel(src, c[3], c[4], imgW, imgH, rodX1, rodY1,
                                bufX1, bufY1, w, h, 3),
                  At(src, idx)[4]>>
    IN  Buffer(w * h, LAMBDA i : at(i % w, i \div w))

\* the positions the loop hands to sampleChannel for red and for blue,
\* before the clamp
CASamples(w, h, rodX1, rodY1, imgW, imgH, bufX1, bufY1, params) ==
    UNION {LET c == caCoords(x, y, rodX1, rodY1, imgW, imgH, bufX1, bufY1,
                             params)
           IN  {samplePos(c[1], c[2], imgW, imgH, rodX1, rodY1, bufX1, bufY1),
                samplePos(c[3], c[4], imgW, imgH, rodX1, rodY1, bufX1, bufY1)} :
              x \in 0 .. w - 1, y \in 0 .. h - 1}

\* a process that resamples whatever the amount is
ChromaticAberration_noBypass(src, w, h, rodX1, rodY1, imgW, imgH, bufX1, bufY1, params) ==
    CAResample(src, w, h, rodX1, rodY1, imgW, imgH, bufX1, bufY1, params)

ChromaticAberration_process(src, w, h, rodX1, rodY1, imgW, imgH, bufX1, bufY1, params) ==
    IF ~params.enable \/ params.amount <= 0 THEN src
    ELSE CAResample(src, w, h, rodX1, rodY1, imgW, imgH, bufX1, bufY1, params)

(***************************************************************************)
(* Vignette (Vignette.h)                                                   *)
(***************************************************************************)
eDark == 0
eLight == 1
eDefocus == 2

computeMask(u, v, aspect, p) ==
    LET cx == ONE \div 2 + p.centerX \div 2
        cy == ONE \div 2 + p.centerY \div 2
        dx0 == u - cx
        dy0 == v - cy
        dx == IF aspect > ONE THEN Mul(dx0, aspect) ELSE dx0
        dy == IF aspect > ONE THEN dy0 ELSE Div(dy0, aspect)
        dCircle == Sqrt(dx * dx + dy * dy)
        dSquare == Max(Abs(dx), Abs(dy))
        dist == mix(dSquare, dCircle, p.roundness)
        softness == Max(10, p.edgeSoftness)
        start == (p.size * 7) \div 10
    IN  smoothstep(start, start + softness, dist)

Vignette_processPixel(px, V, skinMask, p) ==
    IF ~p.enable THEN px
    ELSE
    LET mask == Mul(IF p.invert THEN ONE - V ELSE V, ONE - skinMask)
        amount == p.amount
    IN  IF mask <= 0 THEN px
        ELSE IF p.type = eDark \/ p.type = eLight
        THEN LET effAmount == IF p.type = eDark THEN -amount ELSE amount
                 L == Lum(px)
                 L_out == Max(0, Mul(L, ONE + Mul(effAmount, mask)))
                 scale == IF L > 0 THEN Div(L_out, L) ELSE ONE
                 sc == <<Mul(px[1], scale), Mul(px[2], scale), Mul(px[3], scale)>>
                 tintStr == Mul(mask, amount) \div 2
             IN  IF p.tintR > 0 \/ p.tintG > 0 \/ p.tintB > 0
                 THEN <<sc[1] + Mul(p.tintR, tintStr), sc[2] + Mul(p.tintG, tintStr),
                        sc[3] + Mul(p.tintB, tintStr)>>
                 ELSE sc
        ELSE px     \* eDefocus: nothing is done here


(***************************************************************************)
(* CinematicPluginFactory::describeInContext: the parameters of the        *)
(* instance with the defaults the factory declares (a parameter with no    *)
(* setDefault starts at 0 / false / the first choice).                     *)
(***************************************************************************)
Defaults ==
    [cit |-> [enable |-> TRUE, exposureTrim |-> 0, chromaCeiling |-> ONE,
              whiteBias |-> 0, temperature |-> 0, tint |-> 0,
              globalSaturation |-> ONE],
     pcr |-> [enable |-> TRUE, amount |-> 0, shadowCoolBias |-> 0,
              midtoneColorFocus |-> 0, highlightWarmth |-> 0,
              highlightCompression |-> 0, preset |-> 0, crossProcess |-> FALSE],
     tonal |-> [enable |-> TRUE, contrast |-> ONE, pivot |-> 180,
                strength |-> ONE, blackFloor |-> 0, highlightContrast |-> ONE,
                softClip |-> 0],
     energy |-> [enable |-> FALSE, density |-> ONE, separation |-> 0,
                 highlightRollOff |-> 0, shadowBias |-> 0, vibrance |-> ONE],
     hlp |-> [enable |-> FALSE, threshold |-> ONE, rolloff |-> 500,
              preserveColor |-> FALSE],
     split |-> [enable |-> FALSE, strength |-> 0, shadowHue |-> 0,
                highlightHue |-> 0, balance |-> 0, midtoneHue |-> 0,
                midtoneSaturation |-> 0],
     grain |-> [enable |-> FALSE, grainType |-> 0, amount |-> 0, size |-> 500,
                shadowWeight |-> 500, midWeight |-> 500,
                highlightWeight |-> 500, chromatic |-> FALSE,
                temporalSpeed |-> 500],
     dither |-> [enable |-> FALSE, amount |-> 500],
     mist |-> [enable |-> FALSE, strength |-> 0, threshold |-> 500,
               softness |-> 500, depthBias |-> 0, colorBias |-> 0],
     blur |-> [enable |-> FALSE, blurRadius |-> 4 * ONE, strength |-> 500,
               shadowAmt |-> 300, highlightAmt |-> 800, tonalSoftness |-> 500,
               saturation |-> ONE],
     glow |-> [enable |-> FALSE, amount |-> 0, threshold |-> 800, knee |-> 500,
               radius |-> 10 * ONE, colorFidelity |-> 500, warmth |-> 0],
     streak |-> [enable |-> FALSE, amount |-> 0, threshold |-> 800,
                 length |-> 500, tint |-> 0],
     sharp |-> [enable |-> FALSE, type |-> 0, amount |-> 0, radius |-> ONE,
                detailAmount |-> 500, edgeProtection |-> 0,
                noiseSuppression |-> 0, shadowProtection |-> 0,
                highlightProtection |-> 0],
     halo |-> [enable |-> FALSE, amount |-> 0, threshold |-> 800, knee |-> 500,
               warmth |-> 0, radius |-> 10 * ONE, saturation |-> ONE,
               hueShift |-> 0],
     ca |-> [enable |-> FALSE, amount |-> 0, centerX |-> 0, centerY |-> 0],
     vig |-> [enable |-> FALSE, type |-> 0, amount |-> 0, invert |-> FALSE,
              size |-> 500, roundness |-> 500, edgeSoftness |-> 500,
              defocusAmount |-> 0, defocusSoftness |-> 0, centerX |-> 0,
              centerY |-> 0, tintR |-> 0, tintG |-> 0, tintB |-> 0]]

(***************************************************************************)
(* CinematicPlugin::render, "Populate Params": the processor's             *)
(* configuration read from the parameter values.  Tonal and Highlight      *)
(* Protection have no enable field in the processor: a cleared toggle      *)
(* forces Tonal strength to 0 and the Highlight Protection threshold to    *)
(* 100.0; the Split Toning hue vectors are computed when it is enabled.    *)
(***************************************************************************)
HLPOff == 100

Resolve(p) ==
    [cit |-> p.cit,
     pcr |-> p.pcr,
     tonal |-> [contrast |-> p.tonal.contrast, pivot |-> p.tonal.pivot,
                strength |-> IF ~p.tonal.enable THEN 0 ELSE p.tonal.strength,
                blackFloor |-> p.tonal.blackFloor,
                highlightContrast |-> p.tonal.highlightContrast,
                softClip |-> p.tonal.softClip],
     energy |-> p.energy,
     hlp |-> [threshold |-> IF ~p.hlp.enable THEN HLPOff * ONE
                            ELSE p.hlp.threshold,
              rolloff |-> p.hlp.rolloff,
              preserveColor |-> p.hlp.preserveColor],
     split |-> LET s0 == [enable |-> p.split.enable,
                          strength |-> p.split.strength,
                          shadowHue |-> p.split.shadowHue,
                          highlightHue |-> p.split.highlightHue,
                          balance |-> p.split.balance,
                          midtoneHue |-> p.split.midtoneHue,
                          midtoneSaturation |-> p.split.midtoneSaturation,
                          shadowPb |-> 0, shadowPr |-> 0, highlightPb |-> 0,
                          highlightPr |-> 0, midtonePb |-> 0, midtonePr |-> 0]
               IN  IF s0.enable THEN precomputeVectors(s0) ELSE s0,
     grain |-> p.grain,
     dither |-> p.dither,
     mist |-> p.mist,
     blur |-> p.blur,
     glow |-> p.glow,
     sharp |-> p.sharp,
     halo |-> p.halo,
     streak |-> p.streak,
     ca |-> p.ca,
     vig |-> p.vig]

(***************************************************************************)
(* CinematicPlugin::isIdentity                                             *)
(***************************************************************************)
citNeutral(p) ==
    /\ p.cit.exposureTrim = 0
    /\ p.cit.chromaCeiling >= ONE
    /\ p.cit.whiteBias = 0
    /\ p.cit.temperature = 0
    /\ p.cit.tint = 0
    /\ p.cit.globalSaturation = ONE

isIdentity(p) ==
    LET citActive == p.cit.enable /\ ~citNeutral(p)
        pcrActive == p.pcr.enable /\ p.pcr.amount > 0
        tonalActive == p.tonal.enable /\ p.tonal.strength > 0
        energyActive == p.energy.enable
        hlpActive == p.hlp.enable /\ p.hlp.threshold < HLPOff * ONE
        splitActive == p.split.enable /\ p.split.strength > 0
        grainActive == p.grain.enable /\ p.grain.amount > 0
        ditherActive == p.dither.enable /\ p.dither.amount > 0
        mistActive == p.mist.enable
        blurActive == p.blur.enable
        glowActive == p.glow.enable
        streakActive == p.streak.enable /\ p.streak.amount > 0
        sharpActive == p.sharp.enable
        haloActive == p.halo.enable
        caActive == p.ca.enable /\ p.ca.amount > 0
        vigActive == p.vig.enable
    IN  /\ ~citActive /\ ~pcrActive /\ ~tonalActive /\ ~energyActive
        /\ ~hlpActive /\ ~splitActive /\ ~grainActive /\ ~ditherActive
        /\ ~mistActive /\ ~blurActive /\ ~glowActive /\ ~streakActive
        /\ ~sharpActive /\ ~haloActive /\ ~caActive /\ ~vigActive

(***************************************************************************)
(* CinematicPlugin::getRegionsOfInterest: the margin (canonical units)     *)
(* added on each side of the requested region                              *)
(***************************************************************************)
RoiMist == 6
RoiSharp == 2
RoiStreak == 80
RoiCA == 20
RoiPad == 10

getRegionsOfInterest(p) ==
    LET mistR == IF p.mist.enable THEN RoiMist * ONE ELSE 0
        blurR == IF p.blur.enable THEN p.blur.blurRadius ELSE 0
        glowR == IF p.glow.enable THEN p.glow.radius ELSE 0
        haloR == IF p.halo.enable THEN p.halo.radius ELSE 0
        sharpR == IF p.sharp.enable THEN RoiSharp * ONE ELSE 0
        streakR == IF p.streak.enable THEN p.streak.length * RoiStreak ELSE 0
        caR == IF p.ca.enable THEN p.ca.amount * RoiCA ELSE 0
    IN  mistR + blurR + glowR + haloR + sharpR + streakR + caR + RoiPad * ONE

(***************************************************************************)
(* PipelineProcessor::multiThreadProcessImages, "apron calculation"        *)
(***************************************************************************)
MistRadius == 6
SharpRadius == 2
HaloCap == 50
DefocusSpan == 20
ApronPad == 2

mistR(cfg, scale) == IF cfg.mist.enable THEN Mul(MistRadius * ONE, scale) ELSE 0
blurR(cfg, scale) ==
    IF cfg.blur.enable THEN Max(0, Mul(cfg.blur.blurRadius, scale)) ELSE 0
glowR(cfg, scale) == IF cfg.glow.enable THEN Mul(cfg.glow.radius, scale) ELSE 0
\* a halation radius without the clamp
haloRUnclamped(cfg, scale) ==
    IF cfg.halo.enable THEN Mul(cfg.halo.radius, scale) ELSE 0

haloR(cfg, scale) ==
    IF cfg.halo.enable
    THEN Min(HaloCap * ONE, Mul(cfg.halo.radius, scale))
    ELSE 0
sharpR(cfg) == IF cfg.sharp.enable THEN SharpRadius * ONE ELSE 0
defR(cfg, scale) ==
    IF cfg.vig.enable /\ cfg.vig.type = eDefocus
    THEN Mul(cfg.vig.defocusSoftness * DefocusSpan, scale)
    ELSE 0

Apron(cfg, scale) ==
    LET t0 == IF cfg.mist.enable THEN Max(0, mistR(cfg, scale)) ELSE 0
        t1 == IF cfg.blur.enable THEN t0 + blurR(cfg, scale) ELSE t0
        t2 == IF cfg.halo.enable THEN t1 + haloR(cfg, scale) ELSE t1
        t3 == IF cfg.glow.enable THEN t2 + glowR(cfg, scale) ELSE t2
        t4 == IF cfg.sharp.enable THEN t3 + sharpR(cfg) ELSE t3
        totalR == IF defR(cfg, scale) > 0 THEN t4 + defR(cfg, scale) ELSE t4
    IN  Ceil(totalR) + ApronPad

\* a condition that leaves Anamorphic Streak out
anySpatialNoStreak(cfg) ==
    \/ cfg.mist.enable \/ cfg.blur.enable \/ cfg.glow.enable
    \/ cfg.sharp.enable \/ cfg.halo.enable \/ cfg.ca.enable

anySpatial(cfg) ==
    \/ cfg.mist.enable \/ cfg.blur.enable \/ cfg.glow.enable
    \/ cfg.streak.enable \/ cfg.sharp.enable \/ cfg.halo.enable
    \/ cfg.ca.enable


(***************************************************************************)
(* The processor and its host.                                             *)
(*                                                                         *)
(* The host holds the parameter values, the frame time and the render      *)
(* scale, the source image (FrameW x FrameH pixels at the origin) and the  *)
(* destination; it asks isIdentity and getRegionsOfInterest and then       *)
(* renders the frame twice, first as one window and then as a grid of      *)
(* windows.  A fetch may fail (null image), and the destination image may  *)
(* cover only some rows (getPixelAddress is null outside its bounds).      *)
(***************************************************************************)
VARIABLES
    params,        \* the parameter values of the instance
    renderScale,   \* p_Args.renderScale.x
    time,          \* p_Args.time
    srcPix,        \* the source image: FrameW * FrameH pixels <<r, g, b>>
    srcOk,         \* m_SrcClip->fetchImage returns an image
    dstOk,         \* m_DstClip->fetchImage returns an image
    dstDepth,      \* m_DstClip->getPixelDepth()
    dstComponents, \* m_DstClip->getPixelComponents()
    dstRows,       \* <<y1, y2>>: the rows the destination image covers
    pc,            \* the next step
    pass,          \* 1: the frame as one window, 2: as a grid
    identity,      \* what isIdentity returned ("none" before the call)
    roi,           \* the margin getRegionsOfInterest added (-1 before)
    status,        \* the kOfxStatErrUnsupported exceptions thrown
    fetches,       \* the fetchImage calls made
    cfg,           \* the processor's configuration
    queue,         \* the windows process() still has to hand out
    win,           \* p_ProcWindow
    bufARect,      \* the window expanded by the apron
    allocated,     \* the pixels of bufA, bufB and bufTemp
    bufA, bufB, bufTemp,
    bufPrev,       \* bufA before the stage that ran last
    last,          \* the stage that ran last
    passes,        \* the blur and resampling calls of that stage, each with
                   \* the buffer it reads and the buffer it writes
    trace,         \* Stage 0: per pixel, the value after each module
    dst,           \* the destination: FrameW * FrameH pixels <<r, g, b, a>>
    written,       \* coordinates written by the current window's call
    dstFirst,      \* the destination after the first pass
    parked,        \* the invocations of the frame that are not running:
                   \* the window, the position and the buffers of each
    call,          \* a routine called on its own: its name and arguments
    ret            \* what that call left behind

vars == <<params, renderScale, time, srcPix, srcOk, dstOk, dstDepth,
          dstComponents, dstRows, pc, pass, identity, roi, status, fetches,
          cfg, queue, win, bufARect, allocated, bufA, bufB, bufTemp, bufPrev,
          last, passes, trace, dst, written, dstFirst, parked, call, ret>>

\* what the host holds, and with it the invocations that are not running
clips == <<params, renderScale, time, srcPix, srcOk, dstOk, dstDepth,
           dstComponents, dstRows, call, ret>>
host == <<clips, parked>>

Rect(x1, y1, x2, y2) == [x1 |-> x1, y1 |-> y1, x2 |-> x2, y2 |-> y2]
RectW(rc) == rc.x2 - rc.x1
RectH(rc) == rc.y2 - rc.y1

\* the bounds of the source image and the render window of the frame
FrameRect == Rect(0, 0, FrameW, FrameH)

\* the source clip's region of definition (canonical): the frame's pixels
\* divided by the render scale
rodW == (FrameW * ONE) \div renderScale
rodH == (FrameH * ONE) \div renderScale

RGB(p4) == <<p4[1], p4[2], p4[3]>>
RGBA(px, a) == <<px[1], px[2], px[3], a>>

\* the lambda getSrcPixel: the address of (x, y), else of the coordinate
\* clamped into the bounds, else zero
getSrcPixel(x, y, srcBounds) ==
    LET cx == Min(Max(x, srcBounds.x1), srcBounds.x2 - 1)
        cy == Min(Max(y, srcBounds.y1), srcBounds.y2 - 1)
    IN  IF cx >= srcBounds.x1 /\ cy >= srcBounds.y1
        THEN At(srcPix, (cy - srcBounds.y1) * RectW(srcBounds) + (cx - srcBounds.x1))
        ELSE <<0, 0, 0>>

\* Stage 0 of one pixel: the value read and the value after each of CIT,
\* PCR, Tonal, Energy, HLP, Split, Grain and Dither
\* the modules of Stage 0 in the order of the code; the result lists the
\* pixel after the fetch and after each of the eight modules
Stage0Grain(t, gx, gy, c, frameSeed, imgW, imgH) ==
    Append(t, IF c.grain.enable
              THEN FilmGrain_applyGrain(t[7], gx, gy, frameSeed, imgW, imgH,
                                        c.grain)
              ELSE t[7])

Stage0Dither(t, gx, gy, c) ==
    Append(t, IF c.dither.enable THEN Dither_process(t[8], gx, gy, c.dither)
              ELSE t[8])

Stage0Colour(p0, c) ==
    LET step(t, px) == Append(t, px)
        a1(t) == step(t, IF c.cit.enable
                         THEN ColorIngestTweaks_process(t[1], c.cit) ELSE t[1])
        a2(t) == step(t, IF c.pcr.enable
                         THEN FilmResponse_processPixel(t[2], c.pcr) ELSE t[2])
        a3(t) == step(t, TonalEngine_processPixel(t[3], c.tonal))
        a4(t) == step(t, IF c.energy.enable
                         THEN ColorEnergyEngine_process(t[4], c.energy)
                         ELSE t[4])
        a5(t) == step(t, HighlightProtection_processPixel(t[5], c.hlp))
        a6(t) == step(t, IF c.split.enable
                         THEN SplitToning_processPixel(t[6], c.split)
                         ELSE t[6])
    IN  a6(a5(a4(a3(a2(a1(<<p0>>))))))

Stage0Pixel(gx, gy, c, frameSeed, imgW, imgH) ==
    Stage0Dither(
      Stage0Grain(Stage0Colour(getSrcPixel(gx, gy, FrameRect), c),
                  gx, gy, c, frameSeed, imgW, imgH),
      gx, gy, c)

Zeros(n) == [i \in 1 .. n |-> <<0, 0, 0, 0>>]
bufAW == RectW(bufARect)
bufAH == RectH(bufARect)
bufPixels == bufAW * bufAH

proc == <<cfg, queue, win, bufARect, allocated, bufA, bufB, bufTemp, bufPrev,
          last, passes, trace, dst, written, dstFirst>>

(***************************************************************************)
(* The host asks isIdentity and getRegionsOfInterest before it renders.    *)
(***************************************************************************)
IsIdentity ==
    /\ pc = "query"
    /\ identity' = IF isIdentity(params) THEN "true" ELSE "false"
    /\ pc' = "roi"
    /\ UNCHANGED <<host, proc, pass, roi, status, fetches>>

GetRegionsOfInterest ==
    /\ pc = "roi"
    /\ roi' = getRegionsOfInterest(params)
    /\ pc' = "render"
    /\ UNCHANGED <<host, proc, pass, identity, status, fetches>>

(***************************************************************************)
(* process() of the support library hands the render window to             *)
(* multiThreadProcessImages in windows: the whole frame in the first       *)
(* pass, a grid of disjoint windows covering it in the second.             *)
(***************************************************************************)
Grids ==
    {<<Rect(0, 0, FrameW, FrameH)>>,
     <<Rect(0, 0, FrameW \div 2, FrameH), Rect(FrameW \div 2, 0, FrameW, FrameH)>>,
     <<Rect(0, 0, FrameW, FrameH \div 2), Rect(0, FrameH \div 2, FrameW, FrameH)>>,
     <<Rect(FrameW \div 2, FrameH \div 2, FrameW, FrameH),
       Rect(0, FrameH \div 2, FrameW \div 2, FrameH),
       Rect(FrameW \div 2, 0, FrameW, FrameH \div 2),
       Rect(0, 0, FrameW \div 2, FrameH \div 2)>>}

Plans == IF pass = 1 THEN {<<FrameRect>>} ELSE Grids

\* a format check that looks at the depth alone
SupportedDepthOnly ==
    dstDepth = "Float"

\* the format check of render's first lines
Supported ==
    dstDepth = "Float" /\ dstComponents = "RGBA"

(***************************************************************************)
(* CinematicPlugin::render: the format check, the two fetches, the         *)
(* processor's parameters, process(); or the unsupported status.           *)
(***************************************************************************)
Render ==
    /\ pc = "render"
    /\ IF Supported
       THEN /\ fetches' = fetches + 2
            /\ cfg' = Resolve(params)
            /\ \E plan \in Plans : queue' = plan
            /\ pc' = "begin"
            /\ UNCHANGED status
       ELSE /\ status' = status + 1
            /\ pc' = "done"
            /\ UNCHANGED <<fetches, cfg, queue>>
    /\ UNCHANGED <<host, pass, identity, roi, win, bufARect, allocated, bufA,
                   bufB, bufTemp, bufPrev, last, passes, trace, dst, written,
                   dstFirst>>

\* a guard that looks at the destination image alone
FetchFailedDstOnly == ~dstOk

\* the guard on the fetched images at the head of multiThreadProcessImages
FetchFailed == ~dstOk \/ ~srcOk

(***************************************************************************)
(* multiThreadProcessImages, entry: the null check, the apron, the buffer  *)
(* rectangle and the allocation of bufA, bufB and (with a spatial effect   *)
(* enabled) bufTemp.                                                       *)
(***************************************************************************)
Begin ==
    /\ pc = "begin"
    /\ win' = Head(queue)
    /\ written' = {}
    /\ IF FetchFailed
       THEN /\ pc' = "next"
            /\ last' = "return"
            /\ UNCHANGED <<bufARect, allocated, bufA, bufB, bufTemp, bufPrev>>
       ELSE LET apron == Apron(cfg, renderScale)
                w == Head(queue)
                rc == Rect(w.x1 - apron, w.y1 - apron, w.x2 + apron, w.y2 + apron)
                n == RectW(rc) * RectH(rc)
            IN  /\ bufARect' = rc
                /\ bufA' = Zeros(n)
                /\ bufB' = Zeros(n)
                /\ bufTemp' = IF anySpatial(cfg) THEN Zeros(n) ELSE << >>
                /\ allocated' = IF anySpatial(cfg) THEN 3 * n ELSE 2 * n
                /\ bufPrev' = Zeros(n)
                /\ last' = "begin"
                /\ pc' = "stage0"
    /\ passes' = << >>
    /\ UNCHANGED <<host, pass, identity, roi, status, fetches, cfg, queue,
                   trace, dst, dstFirst>>

(***************************************************************************)
(* Stage 0: the per-pixel pipeline over the whole buffer                   *)
(***************************************************************************)
\* a seed that also counts the fetches made so far
frameSeedCarried ==
    IF cfg.grain.enable THEN (time * 24) \div ONE + 12 * fetches ELSE 0

\* (int)std::floor(_time * 24.0) of a frame time
frameSeedAt(enable, t) == IF enable THEN (t * 24) \div ONE ELSE 0

frameSeed == frameSeedAt(cfg.grain.enable, time)
imgW == rodW
imgH == rodH

\* a store that leaves the 4th channel of the fresh buffer as allocated
Stage0StoreRGB(t) == RGBA(t[9], 0)

\* the store at the end of the pixel loop: r, g, b and 1.0
Stage0Store(t) == RGBA(t[9], ONE)

\* a coordinate counted from the corner of the buffer
gxInBuffer(i) == i % bufAW

\* gx, gy of the pixel loop: the frame coordinates of the buffer's pixel i
gxAt(i) == bufARect.x1 + (i % bufAW)
gyAt(i) == bufARect.y1 + (i \div bufAW)

Stage0 ==
    /\ pc = "stage0"
    /\ trace' = Buffer(bufPixels,
                       LAMBDA i : Stage0Pixel(gxAt(i), gyAt(i), cfg, frameSeed,
                                              imgW, imgH))
    /\ bufA' = Buffer(bufPixels, LAMBDA i : Stage0Store(At(trace', i)))
    /\ bufPrev' = bufA
    /\ last' = "stage0"
    /\ passes' = << >>
    /\ pc' = "mist"
    /\ UNCHANGED <<host, pass, identity, roi, status, fetches, cfg, queue, win,
                   bufARect, allocated, bufB, bufTemp, dst, written, dstFirst>>


(***************************************************************************)
(* Stage 1: the spatial effects, each guarded by its enable flag.  An      *)
(* effect computes its source into bufB, blurs bufB in place with bufTemp  *)
(* as scratch, and applies the result to bufA.                             *)
(***************************************************************************)
\* bufB[i] = <<source(bufA[i]), 0>>
SourceInto(src(_)) == Buffer(bufPixels, LAMBDA i : RGBA(src(RGB(At(bufA, i))), 0))
\* bufA[i] = apply(bufA[i], b[i]) with the alpha of bufA kept
ApplyFrom(b, apply(_, _)) ==
    Buffer(bufPixels,
           LAMBDA i : RGBA(apply(RGB(At(bufA, i)), RGB(At(b, i))), At(bufA, i)[4]))

\* what every stage leaves alone
stageFrame == <<host, pass, identity, roi, status, fetches, cfg, queue, win,
                bufARect, allocated, trace, dst, written, dstFirst>>

\* a blurred effect: g is what gaussianBlur left in bufB and bufTemp
Blurred(g, apply(_, _)) ==
    /\ bufB' = g.dst
    /\ bufTemp' = g.tmp
    /\ bufA' = ApplyFrom(bufB', apply)

Mist ==
    /\ pc = "mist"
    /\ IF cfg.mist.enable
       THEN Blurred(gaussianBlur(SourceInto(LAMBDA px : computeMistSource(px, cfg.mist)),
                                 bufTemp, bufAW, bufAH,
                                 Max(1, Ceil(mistR(cfg, renderScale)))),
                    LAMBDA px, m : applyMist(px, m, cfg.mist))
       ELSE UNCHANGED <<bufA, bufB, bufTemp>>
    /\ bufPrev' = bufA
    /\ last' = "mist"
    /\ passes' = (IF cfg.mist.enable
                  THEN gaussianPasses("bufB", "bufB", "bufTemp",
                                      Max(1, Ceil(mistR(cfg, renderScale))))
                  ELSE << >>)
    /\ pc' = "blur"
    /\ UNCHANGED stageFrame

DreamyBlur ==
    /\ pc = "blur"
    /\ IF cfg.blur.enable
       THEN Blurred(gaussianBlur(bufA, bufTemp, bufAW, bufAH,
                                 Max(1, Ceil(blurR(cfg, renderScale)))),
                    LAMBDA px, bl : applyDreamyBlur(px, bl, cfg.blur))
       ELSE UNCHANGED <<bufA, bufB, bufTemp>>
    /\ bufPrev' = bufA
    /\ last' = "blur"
    /\ passes' = (IF cfg.blur.enable
                  THEN gaussianPasses("bufB", "bufB", "bufTemp",
                                      Max(1, Ceil(blurR(cfg, renderScale))))
                  ELSE << >>)
    /\ pc' = "glow"
    /\ UNCHANGED stageFrame

Glow ==
    /\ pc = "glow"
    /\ IF cfg.glow.enable
       THEN Blurred(gaussianBlur(SourceInto(LAMBDA px : computeGlowSource(px, cfg.glow)),
                                 bufTemp, bufAW, bufAH,
                                 Max(1, Ceil(glowR(cfg, renderScale)))),
                    LAMBDA px, gl : applyGlow(px, gl, cfg.glow))
       ELSE UNCHANGED <<bufA, bufB, bufTemp>>
    /\ bufPrev' = bufA
    /\ last' = "glow"
    /\ passes' = (IF cfg.glow.enable
                  THEN gaussianPasses("bufB", "bufB", "bufTemp",
                                      Max(1, Ceil(glowR(cfg, renderScale))))
                  ELSE << >>)
    /\ pc' = "streak"
    /\ UNCHANGED stageFrame

StreakSpan == 80
streakLen(c, scale) == Max(1, Trunc(Mul(c.streak.length * StreakSpan, scale)))

sLen == streakLen(cfg, renderScale)

\* three passes of boxBlurH1D: bufB -> bufTemp -> bufB -> bufTemp
streakPasses ==
    <<Pass("boxBlurH1D", "bufB", "bufTemp"), Pass("boxBlurH1D", "bufTemp", "bufB"),
      Pass("boxBlurH1D", "bufB", "bufTemp")>>

streakBlur(s, w, h, len) ==
    boxBlurH1D(boxBlurH1D(boxBlurH1D(s, w, h, len), w, h, len), w, h, len)

Streak ==
    /\ pc = "streak"
    /\ IF cfg.streak.enable
       THEN /\ bufTemp' = streakBlur(
                   SourceInto(LAMBDA px : computeStreakSource(px, cfg.streak)),
                   bufAW, bufAH, sLen)
            /\ bufB' = bufTemp'                             \* memcpy back
            /\ bufA' = ApplyFrom(bufB', LAMBDA px, st : applyStreak(px, st, cfg.streak))
       ELSE UNCHANGED <<bufA, bufB, bufTemp>>
    /\ bufPrev' = bufA
    /\ last' = "streak"
    /\ passes' = (IF cfg.streak.enable THEN streakPasses ELSE << >>)
    /\ pc' = "sharp"
    /\ UNCHANGED stageFrame

Sharpen ==
    /\ pc = "sharp"
    /\ IF cfg.sharp.enable
       THEN Blurred(gaussianBlur(bufA, bufTemp, bufAW, bufAH,
                                 Max(1, Ceil(sharpR(cfg)))),
                    LAMBDA px, bl : applySharpen(px, bl, cfg.sharp))
       ELSE UNCHANGED <<bufA, bufB, bufTemp>>
    /\ bufPrev' = bufA
    /\ last' = "sharp"
    /\ passes' = (IF cfg.sharp.enable
                  THEN gaussianPasses("bufB", "bufB", "bufTemp",
                                      Max(1, Ceil(sharpR(cfg))))
                  ELSE << >>)
    /\ pc' = "halo"
    /\ UNCHANGED stageFrame

Halation ==
    /\ pc = "halo"
    /\ IF cfg.halo.enable
       THEN Blurred(gaussianBlur(SourceInto(LAMBDA px : computeHalationSource(px, 0, cfg.halo)),
                                 bufTemp, bufAW, bufAH,
                                 Max(1, Ceil(haloR(cfg, renderScale)))),
                    LAMBDA px, hb : applyHalation(px, hb, cfg.halo))
       ELSE UNCHANGED <<bufA, bufB, bufTemp>>
    /\ bufPrev' = bufA
    /\ last' = "halo"
    /\ passes' = (IF cfg.halo.enable
                  THEN gaussianPasses("bufB", "bufB", "bufTemp",
                                      Max(1, Ceil(haloR(cfg, renderScale))))
                  ELSE << >>)
    /\ pc' = "ca"
    /\ UNCHANGED stageFrame

CA ==
    /\ pc = "ca"
    /\ IF cfg.ca.enable
       THEN /\ bufB' = bufA
            /\ bufA' = ChromaticAberration_process(bufA, bufAW, bufAH, 0, 0,
                           imgW, imgH, bufARect.x1, bufARect.y1, cfg.ca)
       ELSE UNCHANGED <<bufA, bufB>>
    /\ bufPrev' = bufA
    /\ last' = "ca"
    /\ passes' = (IF cfg.ca.enable
                  THEN <<Pass("ChromaticAberration::process", "bufB", "bufA")>>
                  ELSE << >>)
    /\ pc' = "vig"
    /\ UNCHANGED <<stageFrame, bufTemp>>

VignetteStage ==
    /\ pc = "vig"
    /\ IF cfg.vig.enable
       THEN LET aspect == Div(imgW * ONE, Max(ONE, imgH * ONE))
                invW == Div(ONE, imgW * ONE)
                invH == Div(ONE, imgH * ONE)
                vpx(i) ==
                    LET u == (bufARect.x1 + (i % bufAW)) * invW
                        v == (bufARect.y1 + (i \div bufAW)) * invH
                        V == computeMask(u, v, aspect, cfg.vig)
                    IN  RGBA(Vignette_processPixel(RGB(At(bufA, i)), V, 0, cfg.vig),
                             At(bufA, i)[4])
            IN  bufA' = Buffer(bufPixels, vpx)
       ELSE UNCHANGED bufA
    /\ bufPrev' = bufA
    /\ last' = "vig"
    /\ passes' = << >>
    /\ pc' = "output"
    /\ UNCHANGED <<stageFrame, bufB, bufTemp>>


(***************************************************************************)
(* Final output: each row of the window whose destination address is not   *)
(* null receives the row of bufA inside the apron.                         *)
(***************************************************************************)
\* _dstImg->getPixelAddress(x1, y) is null off the rows of the image
dstRowPresent(y) == dstRows[1] <= y /\ y < dstRows[2]

\* a row copy that starts one column before the window's first column
axOffShort == win.x1 - bufARect.x1 - 1

\* a row copy one pixel longer than the window is wide
dstWidthWide == win.x2 - win.x1 + 1

\* the size of the copy
dstWidth == win.x2 - win.x1
dstHeight == win.y2 - win.y1

\* the offsets of the window inside the buffer
axOff == win.x1 - bufARect.x1
ayOff == win.y1 - bufARect.y1

Output ==
    /\ pc = "output"
    /\ LET hit(x, y) == /\ win.x1 <= x /\ x < win.x1 + dstWidth
                        /\ win.y1 <= y /\ y < win.y1 + dstHeight
                        /\ dstRowPresent(y)
           px(i) == LET x == i % FrameW
                        y == i \div FrameW
                    IN  IF hit(x, y)
                        THEN At(bufA, (ayOff + y - win.y1) * bufAW + axOff + x - win.x1)
                        ELSE At(dst, i)
       IN  /\ dst' = Buffer(FrameW * FrameH, px)
           /\ written' = {c \in (0 .. FrameW - 1) \X (0 .. FrameH - 1) :
                             hit(c[1], c[2])}
    /\ last' = "output"
    /\ pc' = "next"
    /\ UNCHANGED <<host, pass, identity, roi, status, fetches, cfg, queue, win,
                   bufARect, allocated, bufA, bufB, bufTemp, bufPrev, passes,
                   trace, dstFirst>>

\* the destination before a render
Blank == [i \in 1 .. FrameW * FrameH |-> <<0, 0, 0, 0>>]

(***************************************************************************)
(* process(): the next window of the plan; after the last window of the    *)
(* first pass the host keeps the result and renders the frame again into   *)
(* a fresh destination.                                                    *)
(***************************************************************************)
NextWindow ==
    /\ pc = "next"
    /\ queue' = Tail(queue)
    /\ IF Len(queue) > 1
       THEN /\ pc' = "begin"
            /\ UNCHANGED <<pass, dst, dstFirst, last, written>>
       ELSE IF pass = 1
            THEN /\ pass' = 2
                 /\ dstFirst' = dst
                 /\ dst' = Blank
                 /\ written' = {}
                 /\ last' = "none"
                 /\ pc' = "render"
            ELSE /\ pc' = "done"
                 /\ UNCHANGED <<pass, dst, dstFirst, last, written>>
    /\ UNCHANGED <<host, identity, roi, status, fetches, cfg, win, bufARect,
                   allocated, bufA, bufB, bufTemp, bufPrev, passes, trace>>


(***************************************************************************)
(* Parameter values the host may hold.  Each set starts from the declared  *)
(* defaults and changes the parameters named, inside their declared        *)
(* ranges.                                                                 *)
(***************************************************************************)
RECURSIVE With(_, _)
With(p, ch) ==
    IF Len(ch) = 0 THEN p
    ELSE With([p EXCEPT ![ch[1][1]][ch[1][2]] = ch[1][3]], Tail(ch))

\* every enable toggle cleared, every other parameter at its default
AllOff ==
    With(Defaults, <<<<"cit", "enable", FALSE>>, <<"pcr", "enable", FALSE>>,
                     <<"tonal", "enable", FALSE>>>>)

\* every enable toggle cleared, the other parameters moved
OffTuned ==
    With(AllOff, <<<<"cit", "exposureTrim", ONE>>, <<"pcr", "amount", 500>>,
                   <<"tonal", "contrast", 1500>>, <<"hlp", "threshold", 800>>,
                   <<"split", "strength", 500>>, <<"grain", "amount", 500>>,
                   <<"mist", "strength", 500>>, <<"glow", "amount", 800>>,
                   <<"streak", "amount", 700>>, <<"halo", "amount", 500>>,
                   <<"ca", "amount", 500>>, <<"vig", "amount", 600>>>>)

\* every toggle cleared, Highlight Protection set to preserve colour
OffPreserve == With(AllOff, <<<<"hlp", "preserveColor", TRUE>>>>)

\* modules enabled at the values isIdentity ignores
NeutralOn ==
    With(AllOff, <<<<"cit", "enable", TRUE>>, <<"cit", "chromaCeiling", 1500>>,
                   <<"pcr", "enable", TRUE>>, <<"tonal", "enable", TRUE>>,
                   <<"tonal", "strength", 0>>, <<"split", "enable", TRUE>>,
                   <<"grain", "enable", TRUE>>, <<"dither", "enable", TRUE>>,
                   <<"dither", "amount", 0>>, <<"streak", "enable", TRUE>>,
                   <<"ca", "enable", TRUE>>>>)

IdentitySets == {AllOff, OffTuned, OffPreserve, NeutralOn, Defaults}

OnlyStreak(len, tint) ==
    With(AllOff, <<<<"streak", "enable", TRUE>>, <<"streak", "amount", ONE>>,
                   <<"streak", "threshold", 500>>, <<"streak", "length", len>>,
                   <<"streak", "tint", tint>>>>)
OnlyMist(bias) ==
    With(AllOff, <<<<"mist", "enable", TRUE>>, <<"mist", "strength", ONE>>,
                   <<"mist", "threshold", 200>>, <<"mist", "depthBias", bias>>,
                   <<"mist", "colorBias", 500>>>>)
OnlyBlur(radius) ==
    With(AllOff, <<<<"blur", "enable", TRUE>>, <<"blur", "blurRadius", radius>>>>)
OnlyGlow(radius, warmth) ==
    With(AllOff, <<<<"glow", "enable", TRUE>>, <<"glow", "amount", ONE>>,
                   <<"glow", "threshold", 500>>, <<"glow", "radius", radius>>,
                   <<"glow", "colorFidelity", ONE>>, <<"glow", "warmth", warmth>>>>)
OnlySharp(type) ==
    With(AllOff, <<<<"sharp", "enable", TRUE>>, <<"sharp", "type", type>>,
                   <<"sharp", "amount", ONE>>>>)
OnlyHalo(radius, hue) ==
    With(AllOff, <<<<"halo", "enable", TRUE>>, <<"halo", "amount", ONE>>,
                   <<"halo", "threshold", 500>>, <<"halo", "radius", radius>>,
                   <<"halo", "hueShift", hue>>>>)
OnlyCA(amount) ==
    With(AllOff, <<<<"ca", "enable", TRUE>>, <<"ca", "amount", amount>>>>)
OnlyVignette(type, amount, soft) ==
    With(AllOff, <<<<"vig", "enable", TRUE>>, <<"vig", "type", type>>,
                   <<"vig", "amount", amount>>, <<"vig", "defocusAmount", 500>>,
                   <<"vig", "defocusSoftness", soft>>>>)
OnlyGrain(amount) ==
    With(AllOff, <<<<"grain", "enable", TRUE>>, <<"grain", "amount", amount>>>>)
Graded ==
    With(Defaults, <<<<"cit", "exposureTrim", 500>>, <<"pcr", "amount", 500>>,
                     <<"pcr", "shadowCoolBias", 400>>, <<"tonal", "contrast", 1200>>,
                     <<"energy", "enable", TRUE>>, <<"energy", "vibrance", 1200>>,
                     <<"hlp", "enable", TRUE>>, <<"split", "enable", TRUE>>,
                     <<"split", "strength", 500>>, <<"split", "shadowHue", 210>>,
                     <<"split", "highlightHue", 30>>, <<"dither", "enable", TRUE>>>>)

EffectSets ==
    {OnlyStreak(13, 0), OnlyStreak(13, ONE), OnlyMist(0), OnlyMist(500),
     OnlyBlur(ONE), OnlyBlur(2 * ONE), OnlyGlow(ONE, ONE), OnlyGlow(ONE, -ONE),
     OnlyHalo(ONE, 0), OnlyHalo(ONE, -75), OnlyCA(500), OnlyGrain(500), Graded}
    \cup {OnlySharp(t) : t \in {eSoftDetail, eMicroContrast, eEdgeAware, eDeconvolution}}
    \cup {OnlyVignette(t, a, 0) : t \in {eDark, eLight}, a \in {0, 500}}

RoiSets ==
    {OnlyVignette(eDefocus, 500, 0), OnlyVignette(eDefocus, 500, 550),
     OnlySharp(eSoftDetail), OnlyStreak(13, 0), OnlyBlur(ONE), OnlyHalo(ONE, 0)}

(***************************************************************************)
(* Source images                                                           *)
(***************************************************************************)
SrcPixel(kind, x, y) ==
    CASE kind = "grey" -> <<500, 500, 500>>
      [] kind = "ramp" -> <<50 + 150 * x, 100 + 300 * y, 900 - 100 * x>>
      [] kind = "spot" -> IF x = FrameW \div 2 + 2 /\ y = 0
                          THEN <<4000, 3000, 2000>> ELSE <<100, 100, 100>>
      [] kind = "bright" -> <<4000, 3000, 2000>>
      [] kind = "superwhite" -> IF x = 0 /\ y = 0
                                THEN <<150 * ONE, 150 * ONE, 150 * ONE>>
                                ELSE <<500, 400, 300>>
      [] kind = "negative" ->
            CASE x = 0 -> <<-200, 50, 0>>       \* negative luminance
              [] x = 1 -> <<0, 0, 0>>           \* black
              [] x = 2 -> <<722, 0, -2126>>     \* luminance exactly zero
              [] x = 3 -> <<1, 1, 1>>           \* luminance near zero
              [] x = 4 -> <<-900, 1200, 800>>   \* bright, red negative
              [] OTHER -> <<500, 500, 500>>

SrcImage(kind) ==
    Buffer(FrameW * FrameH, LAMBDA i : SrcPixel(kind, i % FrameW, i \div FrameW))

Scenario(p, scale, t, kind, sOk, dOk, depth, comps, rows) ==
    [params |-> p, scale |-> scale, time |-> t, kind |-> kind, srcOk |-> sOk,
     dstOk |-> dOk, depth |-> depth, comps |-> comps, rows |-> rows]

AllRows == <<0, FrameH>>

Scenarios ==
    \* clip formats
    {Scenario(p, ONE, 0, "grey", TRUE, TRUE, d, c, AllRows) :
        p \in {Defaults, AllOff},
        d \in {"Float", "Half", "Short", "Byte"}, c \in {"RGBA", "RGB", "Alpha"}}
    \cup \* fetches that fail
    {Scenario(p, ONE, 0, "ramp", s, d, "Float", "RGBA", AllRows) :
        p \in {Defaults, OnlyStreak(13, 0)}, s \in BOOLEAN, d \in BOOLEAN}
    \cup \* destination images that cover only some rows
    {Scenario(AllOff, ONE, 0, "ramp", TRUE, TRUE, "Float", "RGBA", r) :
        r \in {<<0, FrameH - 1>>, <<1, FrameH>>, <<0, 0>>}}
    \cup \* inactive modules on all kinds of pixels
    {Scenario(p, ONE, 0, k, TRUE, TRUE, "Float", "RGBA", AllRows) :
        p \in IdentitySets \ {Defaults}, k \in {"grey", "ramp", "superwhite", "negative"}}
    \cup \* the effects
    {Scenario(p, ONE, 1040, k, TRUE, TRUE, "Float", "RGBA", AllRows) :
        p \in EffectSets, k \in {"ramp", "spot"}}
    \cup \* additive effects on pixels with negative channels
    {Scenario(p, ONE, 0, "negative", TRUE, TRUE, "Float", "RGBA", AllRows) :
        p \in {OnlyStreak(13, ONE), OnlyGlow(ONE, ONE), OnlyHalo(ONE, 0), OnlyMist(0)}}
    \cup \* additive effects on a uniformly bright frame
    {Scenario(p, ONE, 0, "bright", TRUE, TRUE, "Float", "RGBA", AllRows) :
        p \in {OnlyHalo(ONE, -75), OnlyHalo(ONE, 0), OnlyGlow(ONE, -ONE),
               OnlyMist(500), OnlyStreak(13, -ONE)}}
    \cup \* modules enabled at their neutral values, at half resolution
    {Scenario(NeutralOn, ONE \div 2, 0, "ramp", TRUE, TRUE, "Float", "RGBA", AllRows)}
    \cup \* render scales
    {Scenario(p, s, 0, "ramp", TRUE, TRUE, "Float", "RGBA", AllRows) :
        p \in RoiSets, s \in {ONE \div 2, 2 * ONE}}

Init ==
    \E sc \in Scenarios :
        /\ params = sc.params
        /\ renderScale = sc.scale
        /\ time = sc.time
        /\ srcPix = SrcImage(sc.kind)
        /\ srcOk = sc.srcOk
        /\ dstOk = sc.dstOk
        /\ dstDepth = sc.depth
        /\ dstComponents = sc.comps
        /\ dstRows = sc.rows
        /\ pc = "query"
        /\ pass = 1
        /\ identity = "none"
        /\ roi = -1
        /\ status = 0
        /\ fetches = 0
        /\ cfg = "none"
        /\ queue = << >>
        /\ win = Rect(0, 0, 0, 0)
        /\ bufARect = Rect(0, 0, 0, 0)
        /\ allocated = 0
        /\ bufA = << >>
        /\ bufB = << >>
        /\ bufTemp = << >>
        /\ bufPrev = << >>
        /\ last = "none"
        /\ passes = << >>
        /\ trace = << >>
        /\ dst = Blank
        /\ written = {}
        /\ dstFirst = << >>
        /\ parked = << >>
        /\ call = [fn |-> "none"]
        /\ ret = [done |-> FALSE]

Next ==
    \/ IsIdentity
    \/ GetRegionsOfInterest
    \/ Render
    \/ Begin
    \/ Stage0
    \/ Mist
    \/ DreamyBlur
    \/ Glow
    \/ Streak
    \/ Sharpen
    \/ Halation
    \/ CA
    \/ VignetteStage
    \/ Output
    \/ NextWindow

Spec == Init /\ [][Next]_vars


(***************************************************************************)
(* process() on several threads.  The support library splits the render    *)
(* window and calls multiThreadProcessImages once per part, each call on   *)
(* its own thread with its own stack: the window, the buffer rectangle,    *)
(* the three vectors and the position in the code are the invocation's     *)
(* own; the processor's fields, the source and the destination image are   *)
(* the ones all invocations see.  One invocation runs at a time in the     *)
(* model and the others are parked; a thread switch parks the running one  *)
(* between two of its steps.  The frame is rendered twice: first one       *)
(* invocation after the other, then with switches at any step.             *)
(***************************************************************************)
\* an invocation that has not started on its window w
Fresh(w) ==
    [pc |-> "begin", queue |-> <<w>>, win |-> Rect(0, 0, 0, 0),
     bufARect |-> Rect(0, 0, 0, 0), allocated |-> 0, bufA |-> << >>,
     bufB |-> << >>, bufTemp |-> << >>, bufPrev |-> << >>, last |-> "none",
     passes |-> << >>, trace |-> << >>, written |-> {}]

\* the running invocation: its locals
Running ==
    [pc |-> pc, queue |-> queue, win |-> win, bufARect |-> bufARect,
     allocated |-> allocated, bufA |-> bufA, bufB |-> bufB,
     bufTemp |-> bufTemp, bufPrev |-> bufPrev, last |-> last,
     passes |-> passes, trace |-> trace, written |-> written]

\* the invocation l runs next
Resume(l) ==
    /\ pc' = l.pc
    /\ queue' = l.queue
    /\ win' = l.win
    /\ bufARect' = l.bufARect
    /\ allocated' = l.allocated
    /\ bufA' = l.bufA
    /\ bufB' = l.bufB
    /\ bufTemp' = l.bufTemp
    /\ bufPrev' = l.bufPrev
    /\ last' = l.last
    /\ passes' = l.passes
    /\ trace' = l.trace
    /\ written' = l.written

\* what the invocations share
shared == <<clips, pass, identity, roi, status, fetches, cfg, dst, dstFirst>>

\* the parked invocations that have not returned
Unfinished == {k \in 1 .. Len(parked) : parked[k].pc # "next"}

\* another thread gets the processor: at any step in the second render,
\* at the return of the running invocation in the first
Yield ==
    /\ pc \in {"begin", "stage0", "mist", "blur", "glow", "streak", "sharp",
                "halo", "ca", "vig", "output", "next"}
    /\ pass = 2 \/ pc = "next"
    /\ \E k \in Unfinished :
          /\ pass = 1 => \A j \in Unfinished : k <= j
          /\ Resume(parked[k])
          /\ parked' = [parked EXCEPT ![k] = Running]
    /\ UNCHANGED shared

\* every invocation has returned: the first render is kept and the frame
\* rendered again into a fresh destination; the second render ends
Join ==
    /\ pc = "next"
    /\ Unfinished = {}
    /\ IF pass = 1
       THEN /\ pass' = 2
            /\ dstFirst' = dst
            /\ dst' = Blank
            /\ Resume(Fresh(queue[1]))
            /\ parked' = [k \in 1 .. Len(parked) |-> Fresh(parked[k].queue[1])]
       ELSE /\ pc' = "done"
            /\ UNCHANGED <<pass, dst, dstFirst, parked, queue, win, bufARect,
                           allocated, bufA, bufB, bufTemp, bufPrev, last,
                           passes, trace, written>>
    /\ UNCHANGED <<clips, identity, roi, status, fetches, cfg>>

\* the parts of the render window: two halves, or three parts
Halves ==
    {<<Rect(0, 0, FrameW \div 2, FrameH), Rect(FrameW \div 2, 0, FrameW, FrameH)>>,
     <<Rect(0, 0, FrameW, FrameH \div 2), Rect(0, FrameH \div 2, FrameW, FrameH)>>}
Thirds ==
    <<Rect(0, 0, FrameW \div 2, FrameH \div 2),
      Rect(FrameW \div 2, 0, FrameW, FrameH \div 2),
      Rect(0, FrameH \div 2, FrameW, FrameH)>>

\* the parameter values and the parts of the renders
ThreadedRuns ==
    ({Graded, OnlyStreak(13, 0), OnlyBlur(ONE), OnlyCA(500)} \X Halves)
        \cup {<<OnlyStreak(13, 0), Thirds>>}

ThreadedInit ==
    \E run \in ThreadedRuns, kind \in {"spot"} :
      LET p == run[1]
          part == run[2]
      IN
        /\ params = p
        /\ renderScale = ONE
        /\ time = 1040
        /\ srcPix = SrcImage(kind)
        /\ srcOk = TRUE
        /\ dstOk = TRUE
        /\ dstDepth = "Float"
        /\ dstComponents = "RGBA"
        /\ dstRows = AllRows
        /\ pass = 1
        /\ identity = IF isIdentity(p) THEN "true" ELSE "false"
        /\ roi = getRegionsOfInterest(p)
        /\ status = 0
        /\ fetches = 2
        /\ cfg = Resolve(p)
        /\ dst = Blank
        /\ dstFirst = << >>
        /\ pc = "begin"
        /\ queue = <<part[1]>>
        /\ win = Rect(0, 0, 0, 0)
        /\ bufARect = Rect(0, 0, 0, 0)
        /\ allocated = 0
        /\ bufA = << >>
        /\ bufB = << >>
        /\ bufTemp = << >>
        /\ bufPrev = << >>
        /\ last = "none"
        /\ passes = << >>
        /\ trace = << >>
        /\ written = {}
        /\ parked = [k \in 1 .. Len(part) - 1 |-> Fresh(part[k + 1])]
        /\ call = [fn |-> "none"]
        /\ ret = [done |-> FALSE]

ThreadedNext ==
    \/ Begin
    \/ Stage0
    \/ Mist
    \/ DreamyBlur
    \/ Glow
    \/ Streak
    \/ Sharpen
    \/ Halation
    \/ CA
    \/ VignetteStage
    \/ Output
    \/ Yield
    \/ Join

ThreadedSpec == ThreadedInit /\ [][ThreadedNext]_vars


(***************************************************************************)
(* Routines called on their own.  A call holds the routine's name and its  *)
(* arguments; the routine runs once and leaves its result.  The processor  *)
(* is idle meanwhile.                                                      *)
(***************************************************************************)
\* ---------------------------------------------------------------- bounds
\* the largest width, height and radius given to gaussianBlur
BlurMaxW == 5
BlurMaxH == 4
BlurMaxR == 6

Idle ==
    /\ renderScale = ONE
    /\ time = 0
    /\ srcPix = Blank
    /\ srcOk = TRUE
    /\ dstOk = TRUE
    /\ dstDepth = "Float"
    /\ dstComponents = "RGBA"
    /\ dstRows = AllRows
    /\ pc = "idle"
    /\ pass = 1
    /\ identity = "none"
    /\ roi = -1
    /\ status = 0
    /\ fetches = 0
    /\ cfg = "none"
    /\ queue = << >>
    /\ win = Rect(0, 0, 0, 0)
    /\ bufARect = Rect(0, 0, 0, 0)
    /\ allocated = 0
    /\ bufA = << >>
    /\ bufB = << >>
    /\ bufTemp = << >>
    /\ bufPrev = << >>
    /\ last = "none"
    /\ passes = << >>
    /\ trace = << >>
    /\ dst = Blank
    /\ written = {}
    /\ dstFirst = << >>
    /\ parked = << >>

\* what a call leaves alone: everything but its result, and for
\* changedParam the parameter values
idleFrame == <<renderScale, time, srcPix, srcOk, dstOk, dstDepth,
               dstComponents, dstRows, pc, pass, identity, roi, status,
               fetches, proc, parked, call>>
callFrame == <<params, idleFrame>>

\* a buffer of n pixels of one colour, alpha 1
Uniform(n, px) == [i \in 1 .. n |-> RGBA(px, ONE)]

\* gaussianBlur(src, dst, tmp, w, h, r) on a buffer of one colour, with
\* dst == src (in place) or dst a buffer of its own
BlurCalls ==
    {[fn |-> "gaussianBlur", w |-> w, h |-> h, r |-> r, colour |-> c,
      inPlace |-> ip, src |-> Uniform(w * h, c)] :
        w \in 1 .. BlurMaxW, h \in 1 .. BlurMaxH, r \in 1 .. BlurMaxR,
        c \in {<<500, 400, 300>>, <<4000, 0, -200>>, <<0, 0, 0>>},
        ip \in BOOLEAN}

\* the buffers after the call: dst and tmp as gaussianBlur leaves them, and
\* src, which is dst when the call is in place and is only read otherwise
BlurResult(g, c) ==
    [done |-> TRUE, dst |-> g.dst, tmp |-> g.tmp,
     src |-> IF c.inPlace THEN g.dst ELSE c.src]

CallGaussianBlur ==
    /\ call.fn = "gaussianBlur"
    /\ ~ret.done
    /\ ret' = BlurResult(gaussianBlur(call.src, Zeros(call.w * call.h),
                                      call.w, call.h, call.r), call)
    /\ UNCHANGED callFrame

\* HighlightProtection::processPixel on one pixel
HlpCalls ==
    {[fn |-> "HighlightProtection", px |-> px,
      p |-> [threshold |-> th, rolloff |-> k, preserveColor |-> pc0]] :
        px \in {<<2000, 2000, 2000>>, <<4000, 3000, 2000>>, <<500, 400, 300>>,
                <<1000, 1000, 1000>>, <<1, 1, 1>>, <<900, 1200, 300>>},
        th \in {ONE \div 2, ONE, 2 * ONE}, k \in {0, ONE \div 2, 2 * ONE},
        pc0 \in BOOLEAN}

CallHighlightProtection ==
    /\ call.fn = "HighlightProtection"
    /\ ~ret.done
    /\ ret' = [done |-> TRUE,
               px |-> HighlightProtection_processPixel(call.px, call.p)]
    /\ UNCHANGED callFrame

\* TonalEngine::processPixel on one grey pixel, at the neutral setting and
\* at a raised contrast
TonalNeutral ==
    [contrast |-> ONE, pivot |-> 180, strength |-> ONE, blackFloor |-> 0,
     highlightContrast |-> ONE, softClip |-> 0]

TonalCalls ==
    {[fn |-> "TonalEngine", px |-> <<v, v, v>>,
      p |-> [TonalNeutral EXCEPT !.contrast = k, !.highlightContrast = k]] :
        v \in {0, 1, 50, 180, 181, 500, 750, ONE, 1500, 2 * ONE},
        k \in {ONE, 1500}}

CallTonalEngine ==
    /\ call.fn = "TonalEngine"
    /\ ~ret.done
    /\ ret' = [done |-> TRUE, px |-> TonalEngine_processPixel(call.px, call.p)]
    /\ UNCHANGED callFrame

(***************************************************************************)
(* CinematicPlugin::changedParam.  The host has stored the new value of    *)
(* the parameter p_ParamName and calls the handler, which reads GrainType  *)
(* and sets the five grain sliders for the values 1 .. 6 of the choice.    *)
(***************************************************************************)
\* the switch over gType: <<set, amt, sz, sh, md, hi>>
grainSwitch(gType) ==
    CASE gType = 1 -> <<TRUE, 700, 800, 800, 600, 200>>      \* 8mm
      [] gType = 2 -> <<TRUE, 500, 600, 600, 600, 300>>      \* 16mm
      [] gType = 3 -> <<TRUE, 400, 500, 500, 500, 500>>      \* S16
      [] gType = 4 -> <<TRUE, 250, 300, 300, 600, 400>>      \* 35mm
      [] gType = 5 -> <<TRUE, 150, 200, 200, 500, 300>>      \* 65mm
      [] gType = 6 -> <<TRUE, 0, 100, 500, 500, 500>>        \* Clean
      [] OTHER -> <<FALSE, 0, 0, ONE, ONE, ONE>>             \* Custom

\* the five setValue calls
setGrainSliders(p, v) ==
    [p EXCEPT !.grain.amount = v[2], !.grain.size = v[3],
              !.grain.shadowWeight = v[4], !.grain.midWeight = v[5],
              !.grain.highlightWeight = v[6]]

\* a handler that does not look at the name of the parameter
changedParamAnyName(p, p_ParamName) ==
    IF grainSwitch(p.grain.grainType)[1]
    THEN setGrainSliders(p, grainSwitch(p.grain.grainType))
    ELSE p

changedParam(p, p_ParamName) ==
    IF p_ParamName = "GrainType" /\ grainSwitch(p.grain.grainType)[1]
    THEN setGrainSliders(p, grainSwitch(p.grain.grainType))
    ELSE p

\* the parameter values at the call: a preset or Custom chosen, the sliders
\* at their defaults or moved
ParamCalls ==
    {[fn |-> "changedParam", name |-> n,
      before |-> [q EXCEPT !.grain.grainType = g]] :
        n \in {"GrainType", "GrainAmount", "GrainSize", "EnableGrain",
               "PCRPreset", "TonalContrast"},
        g \in 0 .. 6,
        q \in {Defaults, OnlyGrain(500), Graded}}

ChangedParam ==
    /\ call.fn = "changedParam"
    /\ ~ret.done
    /\ params' = changedParam(params, call.name)
    /\ ret' = [done |-> TRUE]
    /\ UNCHANGED idleFrame

(***************************************************************************)
(* FilmGrain::applyGrain on one pixel at two frame times, with the frame   *)
(* seed the processor computes for each.                                   *)
(***************************************************************************)
GrainCalls ==
    {[fn |-> "applyGrain", px |-> <<500, 400, 300>>, x |-> x, y |-> 1,
      t1 |-> t[1], t2 |-> t[2],
      p |-> [OnlyGrain(500).grain EXCEPT !.temporalSpeed = sp,
                                         !.chromatic = ch]] :
        x \in {0, 3},
        t \in {<<0, ONE>>, <<ONE, 2 * ONE>>, <<0, 24 * ONE>>,
               <<5 * ONE, 6 * ONE>>, <<0, ONE \div 2>>, <<3 * ONE, 3 * ONE>>},
        sp \in {0, ONE \div 2, ONE},
        ch \in BOOLEAN}

grainAt(g, t) ==
    FilmGrain_applyGrain(g.px, g.x, g.y, frameSeedAt(g.p.enable, t),
                         FrameW, FrameH, g.p)

CallApplyGrain ==
    /\ call.fn = "applyGrain"
    /\ ~ret.done
    /\ ret' = [done |-> TRUE,
               seed1 |-> effectiveSeed(frameSeedAt(call.p.enable, call.t1),
                                       call.p),
               seed2 |-> effectiveSeed(frameSeedAt(call.p.enable, call.t2),
                                       call.p),
               px1 |-> grainAt(call, call.t1),
               px2 |-> grainAt(call, call.t2)]
    /\ UNCHANGED callFrame

(***************************************************************************)
(* The apron of multiThreadProcessImages for a configuration and a render  *)
(* scale, and the distance over which the spatial effects of that          *)
(* configuration read neighbouring pixels of the working buffer.           *)
(***************************************************************************)
\* the three box passes of gaussianBlur(.., r), horizontally or vertically
boxReach(r) ==
    IF r < 1 THEN 0
    ELSE LET radii == boxRadiiForGaussian(Max((r * ONE) \div 2, ONE \div 10))
         IN  radii[1] + radii[2] + radii[3]

\* the radius each blur-based effect hands to gaussianBlur
blurReach(c, scale) ==
    (IF c.mist.enable THEN boxReach(Max(1, Ceil(mistR(c, scale)))) ELSE 0)
    + (IF c.blur.enable THEN boxReach(Max(1, Ceil(blurR(c, scale)))) ELSE 0)
    + (IF c.glow.enable THEN boxReach(Max(1, Ceil(glowR(c, scale)))) ELSE 0)
    + (IF c.sharp.enable THEN boxReach(Max(1, Ceil(sharpR(c)))) ELSE 0)
    + (IF c.halo.enable THEN boxReach(Max(1, Ceil(haloR(c, scale)))) ELSE 0)

\* the three boxBlurH1D passes of radius sLen
streakReach(c, scale) == IF c.streak.enable THEN 3 * streakLen(c, scale) ELSE 0

\* the shift of the red and blue samples at the corner farthest from the
\* centre, in pixels of the wider side, rounded up to the pixels the
\* bilinear sample reads
caReach(c, imageW, imageH) ==
    IF ~c.ca.enable \/ c.ca.amount <= 0 THEN 0
    ELSE LET du == ONE \div 2 + Abs(c.ca.centerX) \div 2
             dv == ONE \div 2 + Abs(c.ca.centerY) \div 2
             dist == Sqrt(du * du + dv * dv)
             shift == Mul(dist, c.ca.amount \div 50)
         IN  Ceil(Max(Mul(du, shift) * imageW, Mul(dv, shift) * imageH))

\* the effects that enter the apron, each on or off
ApronCfg(on, haloRadius) ==
    With(AllOff, <<<<"mist", "enable", on[1]>>, <<"blur", "enable", on[2]>>,
                   <<"halo", "enable", on[3]>>, <<"halo", "radius", haloRadius>>,
                   <<"glow", "enable", on[4]>>, <<"sharp", "enable", on[5]>>,
                   <<"vig", "enable", on[6]>>, <<"vig", "type", eDefocus>>,
                   <<"vig", "defocusSoftness", ONE \div 4>>>>)

ApronCalls ==
    {[fn |-> "apron", cfg |-> ApronCfg(on, hr), scale |-> sc,
      imgW |-> FrameW, imgH |-> FrameH] :
        on \in [1 .. 6 -> BOOLEAN], hr \in {10 * ONE, 60 * ONE},
        sc \in {ONE \div 2, ONE, 2 * ONE}}
    \cup
    {[fn |-> "apron", cfg |-> c, scale |-> sc, imgW |-> d[1], imgH |-> d[2]] :
        c \in {OnlyStreak(13, 0), OnlyStreak(500, 0), OnlyCA(ONE),
               OnlyCA(0)},
        sc \in {ONE \div 2, ONE, 2 * ONE},
        d \in {<<FrameW, FrameH>>, <<1920, 1080>>}}

CallApron ==
    /\ call.fn = "apron"
    /\ ~ret.done
    /\ ret' = [done |-> TRUE,
               apron |-> Apron(call.cfg, call.scale),
               reach |-> blurReach(call.cfg, call.scale)
                         + streakReach(call.cfg, call.scale)
                         + caReach(call.cfg, call.imgW, call.imgH)]
    /\ UNCHANGED callFrame

(***************************************************************************)
(* boxBlurH, boxBlurV and boxBlurH1D on a buffer of w x h varied pixels.   *)
(***************************************************************************)
BoxMaxW == 9
BoxMaxH == 3
BoxMaxR == 4

\* n pixels that differ from one another, some channels negative
Varied(k, n) ==
    [i \in 1 .. n |-> <<(i * i * 37 + k * 101) % 1000,
                        ((i * 91 + k * 7) % 700) - 100,
                        (i * 53 * (k + 1)) % 400, i * 10>>]

BoxCalls ==
    {[fn |-> "boxBlur", w |-> w, h |-> h, r |-> r, src |-> Varied(k, w * h)] :
        w \in 1 .. BoxMaxW, h \in 1 .. BoxMaxH, r \in 1 .. BoxMaxR,
        k \in 0 .. 1}

CallBoxBlur ==
    /\ call.fn = "boxBlur"
    /\ ~ret.done
    /\ ret' = [done |-> TRUE,
               H |-> boxBlurH(call.src, call.w, call.h, call.r),
               V |-> boxBlurV(call.src, call.w, call.h, call.r),
               H1D |-> boxBlurH1D(call.src, call.w, call.h, call.r),
               idxH |-> boxBlurHIndices(call.w, call.h, call.r),
               idxV |-> boxBlurVIndices(call.w, call.h, call.r)]
    /\ UNCHANGED callFrame

\* ChromaticAberration::process on a buffer of w x h pixels whose corner
\* is at bufX1, bufY1 of an image of imgW x imgH pixels
CACalls ==
    {[fn |-> "ChromaticAberration", w |-> sz[1], h |-> sz[2],
      imgW |-> img[1], imgH |-> img[2], bufX1 |-> at[1], bufY1 |-> at[2],
      src |-> Varied(0, sz[1] * sz[2]),
      p |-> [enable |-> TRUE, amount |-> amt, centerX |-> c[1],
             centerY |-> c[2]]] :
        sz \in {<<4, 2>>, <<3, 3>>, <<1, 1>>},
        img \in {<<8, 4>>, <<64, 48>>, <<200, 120>>},
        at \in {<<0, 0>>, <<-2, -1>>, <<60, 45>>, <<197, 118>>},
        amt \in {1, 500, ONE},
        c \in {<<0, 0>>, <<ONE, -ONE>>, <<-ONE, ONE>>, <<300, 0>>}}

CallChromaticAberration ==
    /\ call.fn = "ChromaticAberration"
    /\ ~ret.done
    /\ ret' = [done |-> TRUE,
               dst |-> ChromaticAberration_process(call.src, call.w, call.h,
                           0, 0, call.imgW, call.imgH, call.bufX1, call.bufY1,
                           call.p),
               samples |-> CASamples(call.w, call.h, 0, 0, call.imgW,
                               call.imgH, call.bufX1, call.bufY1, call.p),
               reads |-> {sampleIndex(pos, call.w, call.h) :
                              pos \in CASamples(call.w, call.h, 0, 0,
                                          call.imgW, call.imgH, call.bufX1,
                                          call.bufY1, call.p)}]
    /\ UNCHANGED callFrame

\* SplitToning::processPixel on one pixel, after precomputeVectors
SplitParams(strength, shadowHue, highlightHue, balance, midSat) ==
    precomputeVectors(
        [enable |-> TRUE, strength |-> strength, shadowHue |-> shadowHue,
         highlightHue |-> highlightHue, balance |-> balance,
         midtoneHue |-> 120, midtoneSaturation |-> midSat,
         shadowPb |-> 0, shadowPr |-> 0, highlightPb |-> 0,
         highlightPr |-> 0, midtonePb |-> 0, midtonePr |-> 0])

SplitCalls ==
    {[fn |-> "SplitToning", px |-> px,
      p |-> SplitParams(st, hue[1], hue[2], bal, ms)] :
        px \in {<<0, 0, 0>>, <<100, 50, 200>>, <<500, 500, 500>>,
                <<900, 300, 100>>, <<1500, 1200, 800>>, <<-50, 20, -10>>},
        st \in {1, 500, ONE},
        hue \in {<<220, 40>>, <<0, 90>>, <<315, 165>>},
        bal \in {-ONE, 0, 300},
        ms \in {0, 700}}

CallSplitToning ==
    /\ call.fn = "SplitToning"
    /\ ~ret.done
    /\ ret' = [done |-> TRUE,
               px |-> SplitToning_processPixel(call.px, call.p)]
    /\ UNCHANGED callFrame

Calls ==
    BlurCalls \cup HlpCalls \cup TonalCalls \cup ParamCalls \cup GrainCalls
        \cup ApronCalls \cup BoxCalls \cup SplitCalls
        \cup CACalls

CallInit ==
    /\ call \in Calls
    /\ ret = [done |-> FALSE]
    /\ params = (IF call.fn = "changedParam" THEN call.before ELSE Defaults)
    /\ Idle

CallNext ==
    \/ CallGaussianBlur
    \/ CallHighlightProtection
    \/ CallTonalEngine
    \/ ChangedParam
    \/ CallApplyGrain
    \/ CallApron
    \/ CallBoxBlur
    \/ CallSplitToning
    \/ CallChromaticAberration

CallSpec == CallInit /\ [][CallNext]_vars


(***************************************************************************)
(* Properties                                                              *)
(***************************************************************************)
Coords == (0 .. FrameW - 1) \X (0 .. FrameH - 1)
SrcAt(c) == At(srcPix, c[2] * FrameW + c[1])
DstAt(c) == At(dst, c[2] * FrameW + c[1])
InWindow(c) == win.x1 <= c[1] /\ c[1] < win.x2 /\ win.y1 <= c[2] /\ c[2] < win.y2
\* the processor has run Stage 0 of the current window
Staged == last \in {"stage0", "mist", "blur", "glow", "streak", "sharp",
                    "halo", "ca", "vig", "output"}
\* every pixel of bufA has the R, G, B it had before the last stage
StageKeptRGB ==
    \A i \in 1 .. Len(bufA) : RGB(bufA[i]) = RGB(bufPrev[i])
\* no pixel of bufA has a smaller luminance than before the last stage
StageNotDarker ==
    \A i \in 1 .. Len(bufA) : Lum(RGB(bufA[i])) >= Lum(RGB(bufPrev[i]))
AllTogglesOff == \A m \in DOMAIN params : ~params[m].enable

\* C1: tile invariance.  When both passes are done, the destination of the
\* second pass (the frame rendered as a grid of windows) equals the
\* destination of the first pass (the frame rendered as one window) at
\* every coordinate.
C1_TileInvariance ==
    (pc = "done" /\ pass = 2) => dst = dstFirst

\* C2: full-pipeline identity.  With every enable toggle off, every
\* destination pixel written for the window has the R, G, B of the source
\* pixel at the same coordinate.
C2_FullPipelineIdentity ==
    (last = "output" /\ AllTogglesOff) =>
        \A c \in written : RGB(DstAt(c)) = SrcAt(c)

\* C3: disabled-module identity.  A module that is disabled (enable flag
\* false, Tonal or Highlight Protection toggle off) or set to its identity
\* value (tonal strength 0, grain amount 0, vignette amount 0) leaves the
\* R, G, B of every pixel as they were before the module.
C3_DisabledModuleIdentity ==
    /\ Staged =>
         \A i \in 1 .. Len(trace) :
            /\ ~cfg.cit.enable => trace[i][2] = trace[i][1]
            /\ ~cfg.pcr.enable => trace[i][3] = trace[i][2]
            /\ (~params.tonal.enable \/ params.tonal.strength = 0)
                  => trace[i][4] = trace[i][3]
            /\ ~cfg.energy.enable => trace[i][5] = trace[i][4]
            /\ ~params.hlp.enable => trace[i][6] = trace[i][5]
            /\ ~cfg.split.enable => trace[i][7] = trace[i][6]
            /\ (~cfg.grain.enable \/ cfg.grain.amount = 0)
                  => trace[i][8] = trace[i][7]
            /\ ~cfg.dither.enable => trace[i][9] = trace[i][8]
    /\ (last = "mist" /\ ~cfg.mist.enable) => StageKeptRGB
    /\ (last = "blur" /\ ~cfg.blur.enable) => StageKeptRGB
    /\ (last = "glow" /\ ~cfg.glow.enable) => StageKeptRGB
    /\ (last = "streak" /\ ~cfg.streak.enable) => StageKeptRGB
    /\ (last = "sharp" /\ ~cfg.sharp.enable) => StageKeptRGB
    /\ (last = "halo" /\ ~cfg.halo.enable) => StageKeptRGB
    /\ (last = "ca" /\ ~cfg.ca.enable) => StageKeptRGB
    /\ (last = "vig" /\ (~cfg.vig.enable \/ cfg.vig.amount = 0)) => StageKeptRGB

\* C4: isIdentity is sound.  When isIdentity returned true for the
\* parameter values, every destination pixel render writes has the R, G, B
\* of the source pixel at the same coordinate.
C4_IsIdentitySound ==
    (identity = "true" /\ last = "output") =>
        \A c \in written : RGB(DstAt(c)) = SrcAt(c)

\* every module is disabled or has all its controls at the declared defaults
DisabledOrDefault(p) ==
    \A m \in DOMAIN p :
        ~p[m].enable \/ [p[m] EXCEPT !.enable = TRUE] = [Defaults[m] EXCEPT !.enable = TRUE]

\* C5: isIdentity returns true whenever every module is disabled or has its
\* controls at their default values, in any mixture.
C5_IsIdentityWhenDisabledOrDefault ==
    (identity # "none" /\ DisabledOrDefault(params)) => identity = "true"

\* C6: the region of interest covers the apron.  The margin
\* getRegionsOfInterest adds to each side of the window, in pixels at the
\* render scale, is at least the apron the processor puts around the window.
C6_RoiCoversApron ==
    (roi >= 0 /\ allocated > 0) =>
        Mul(roi, renderScale) >= (win.x1 - bufARect.x1) * ONE

\* C7: all-or-nothing output.  After the final output of a window either
\* every pixel of the window has been written or none.
C7_AllOrNothing ==
    last = "output" =>
        \/ written = {}
        \/ written = {c \in Coords : InWindow(c)}

\* C8: a fetch failure is a no-op.  When the destination or the source image
\* is null, the processor allocates nothing, runs no stage, writes nothing
\* and the destination stays as it was.
C8_FetchFailureNoOp ==
    ((~dstOk \/ ~srcOk) /\ pc \notin {"query", "roi", "render"}) =>
        /\ allocated = 0
        /\ bufA = << >> /\ bufB = << >> /\ bufTemp = << >>
        /\ trace = << >>
        /\ ~Staged
        /\ written = {}
        /\ dst = Blank

\* C8: the processor was entered with a null source image and has returned
C8_Witness ==
    ~srcOk /\ dstOk /\ last = "return" /\ pc = "next" /\ fetches = 2

C10_AdditiveNeverDarken ==
    /\ (last = "mist" /\ cfg.mist.enable /\ cfg.mist.strength > 0) => StageNotDarker
    /\ (last = "glow" /\ cfg.glow.enable /\ cfg.glow.amount > 0) => StageNotDarker
    /\ (last = "halo" /\ cfg.halo.enable /\ cfg.halo.amount > 0) => StageNotDarker
    /\ (last = "streak" /\ cfg.streak.enable /\ cfg.streak.amount > 0) => StageNotDarker

\* C11: blur flatness.  gaussianBlur with a radius of at least 1, applied
\* to a buffer of any width and height in which every pixel has the same
\* R, G, B, leaves that R, G, B in every pixel of dst, borders included,
\* in place and with a dst of its own; a src that is not dst is only read.
C11_BlurFlatness ==
    (call.fn = "gaussianBlur" /\ ret.done) =>
        /\ Len(ret.dst) = call.w * call.h
        /\ \A i \in 1 .. Len(ret.dst) : RGB(ret.dst[i]) = call.colour
        /\ ~call.inPlace => ret.src = call.src

\* C11: a buffer narrower and lower than the box radii was blurred in place
C11_Witness ==
    /\ call.fn = "gaussianBlur" /\ ret.done /\ call.inPlace
    /\ call.w = 2 /\ call.h = 1 /\ call.r = 6 /\ call.colour = <<500, 400, 300>>
    /\ boxRadiiForGaussian(3 * ONE) = <<4, 4, 4>>

C13_CABypass ==
    (last = "ca" /\ cfg.ca.enable /\ cfg.ca.amount = 0) => bufA = bufPrev

\* C13: the step ran with amount 0 at half resolution on a buffer whose
\* pixels differ, after copying the buffer to bufB
C13_Witness ==
    /\ last = "ca" /\ cfg.ca.enable /\ cfg.ca.amount = 0
    /\ renderScale = ONE \div 2
    /\ bufB = bufPrev
    /\ \E i, j \in 1 .. Len(bufPrev) : RGB(bufPrev[i]) # RGB(bufPrev[j])

\* a and b differ by rounding only: two units, and one unit of a ratio
\* applied to a value of size v
Near(a, b, v) == Abs(a - b) <= 2 + Abs(v) \div ONE

C15_TonalNeutral ==
    (call.fn = "TonalEngine" /\ ret.done /\ call.p = TonalNeutral) =>
        \A c \in 1 .. 3 : Near(ret.px[c], call.px[c], call.px[c])

\* C15: the neutral setting was applied above the pivot, and a raised
\* contrast moves the same pixel
C15_Witness ==
    /\ call.fn = "TonalEngine" /\ ret.done /\ call.p = TonalNeutral
    /\ call.px = <<2 * ONE, 2 * ONE, 2 * ONE>>
    /\ Lum(call.px) > call.p.pivot
    /\ ~Near(TonalEngine_processPixel(call.px,
                 [TonalNeutral EXCEPT !.highlightContrast = 1500])[1],
             call.px[1], call.px[1])

\* the sliders of the six presets: amount, size, shadow weight, mid weight,
\* highlight weight of 8mm, 16mm, Super16, 35mm, 65mm, Clean
PresetSliders ==
    <<[amount |-> 700, size |-> 800, shadowWeight |-> 800, midWeight |-> 600,
       highlightWeight |-> 200],
      [amount |-> 500, size |-> 600, shadowWeight |-> 600, midWeight |-> 600,
       highlightWeight |-> 300],
      [amount |-> 400, size |-> 500, shadowWeight |-> 500, midWeight |-> 500,
       highlightWeight |-> 500],
      [amount |-> 250, size |-> 300, shadowWeight |-> 300, midWeight |-> 600,
       highlightWeight |-> 400],
      [amount |-> 150, size |-> 200, shadowWeight |-> 200, midWeight |-> 500,
       highlightWeight |-> 300],
      [amount |-> 0, size |-> 100, shadowWeight |-> 500, midWeight |-> 500,
       highlightWeight |-> 500]>>

\* C16: the grain preset is a batch update.  When GrainType changes to one
\* of the six presets, changedParam sets amount, size and the three zone
\* weights together to the preset's values and nothing else; when it
\* changes to Custom, or another parameter changes, no parameter is
\* modified.
C16_GrainPresetBatch ==
    (call.fn = "changedParam" /\ ret.done) =>
        LET g == call.before.grain.grainType
        IN  IF call.name = "GrainType" /\ g \in 1 .. 6
            THEN /\ \A k \in DOMAIN PresetSliders[g] :
                        params.grain[k] = PresetSliders[g][k]
                 /\ \A k \in DOMAIN params.grain \ DOMAIN PresetSliders[g] :
                        params.grain[k] = call.before.grain[k]
                 /\ \A m \in DOMAIN params \ {"grain"} :
                        params[m] = call.before[m]
            ELSE params = call.before

\* C16: GrainType changed to 35mm with every slider away from the preset
C16_Witness ==
    /\ call.fn = "changedParam" /\ ret.done /\ call.name = "GrainType"
    /\ call.before.grain.grainType = 4
    /\ \A k \in DOMAIN PresetSliders[4] :
          call.before.grain[k] # PresetSliders[4][k]
    /\ params.grain.amount = 250

\* C17: grain temporal speed.  With temporalSpeed = 0 the effective seed and
\* the grain of a pixel are the same at every frame time; with
\* temporalSpeed = 1 the effective seed is the per-frame seed
\* floor(time * 24) and differs between two different whole frames.
C17_TemporalSpeed ==
    (call.fn = "applyGrain" /\ ret.done) =>
        /\ (call.p.temporalSpeed = 0) =>
              (ret.seed1 = ret.seed2 /\ ret.px1 = ret.px2)
        /\ (call.p.temporalSpeed = ONE) =>
              /\ ret.seed1 = (call.t1 * 24) \div ONE
              /\ ret.seed2 = (call.t2 * 24) \div ONE
              /\ (call.t1 # call.t2 /\ call.t1 % ONE = 0 /\ call.t2 % ONE = 0)
                    => ret.seed1 # ret.seed2

\* C17: the part about temporalSpeed = 1 alone
C17_FullSpeed ==
    (call.fn = "applyGrain" /\ ret.done /\ call.p.temporalSpeed = ONE) =>
        /\ ret.seed1 = (call.t1 * 24) \div ONE
        /\ ret.seed2 = (call.t2 * 24) \div ONE
        /\ (call.t1 # call.t2 /\ call.t1 % ONE = 0 /\ call.t2 % ONE = 0)
              => ret.seed1 # ret.seed2

\* C17: at temporalSpeed = 0 the seed is constant only within one whole
\* frame time
C17_StaticWithinFrame ==
    (call.fn = "applyGrain" /\ ret.done /\ call.p.temporalSpeed = 0
        /\ call.t1 \div ONE = call.t2 \div ONE) =>
        (ret.seed1 = ret.seed2 /\ ret.px1 = ret.px2)

\* the radii of the six effects that enter the apron, as the specification
\* states them: <<Mist, Blur, Halation, Glow, Sharpening, Defocus>>
C19_Radii(c, scale) ==
    <<IF c.mist.enable THEN Mul(6 * ONE, scale) ELSE 0,
      IF c.blur.enable THEN Max(0, Mul(c.blur.blurRadius, scale)) ELSE 0,
      IF c.halo.enable THEN Min(50 * ONE, Mul(c.halo.radius, scale)) ELSE 0,
      IF c.glow.enable THEN Mul(c.glow.radius, scale) ELSE 0,
      IF c.sharp.enable THEN 2 * ONE ELSE 0,
      IF c.vig.enable /\ c.vig.type = eDefocus
      THEN Mul(c.vig.defocusSoftness * 20, scale) ELSE 0>>

C19_Others(r) == r[2] + r[3] + r[4] + r[5] + r[6]

C20_ApronCoversFootprint ==
    (call.fn = "apron" /\ ret.done) => ret.apron >= ret.reach

\* C20: with the effects whose reach the apron leaves out or underestimates
\* set aside (Sharpening alone, or no spatial effect), the apron covers the
\* reach
C20_SharpenCovered ==
    (call.fn = "apron" /\ ret.done /\ ~call.cfg.mist.enable
        /\ ~call.cfg.blur.enable /\ ~call.cfg.halo.enable
        /\ ~call.cfg.glow.enable /\ ~call.cfg.streak.enable
        /\ ~call.cfg.ca.enable) => ret.apron >= ret.reach

\* the steps of the invocation in the order the specification gives
C18_Order ==
    <<"stage0", "mist", "blur", "glow", "streak", "sharp", "halo", "ca",
      "vig", "output", "next">>

\* t holds the pixel at (gx, gy) after the fetch and after each of Ingest
\* Tweaks, Film Response, Tonal Engine, Color Energy, Highlight Protection,
\* Split Toning, Film Grain and Dither, each applied once to the result of
\* the one before when its toggle is set and skipped when it is cleared;
\* with skipHlp false Highlight Protection is applied whatever its toggle
C18_ChainInOrder(t, gx, gy, skipHlp) ==
    /\ Len(t) = 9
    /\ t[1] = getSrcPixel(gx, gy, FrameRect)
    /\ t[2] = (IF params.cit.enable
               THEN ColorIngestTweaks_process(t[1], cfg.cit) ELSE t[1])
    /\ t[3] = (IF params.pcr.enable
               THEN FilmResponse_processPixel(t[2], cfg.pcr) ELSE t[2])
    /\ t[4] = (IF params.tonal.enable
               THEN TonalEngine_processPixel(t[3], cfg.tonal) ELSE t[3])
    /\ t[5] = (IF params.energy.enable
               THEN ColorEnergyEngine_process(t[4], cfg.energy) ELSE t[4])
    /\ t[6] = (IF params.hlp.enable \/ ~skipHlp
               THEN HighlightProtection_processPixel(t[5], cfg.hlp) ELSE t[5])
    /\ t[7] = (IF params.split.enable
               THEN SplitToning_processPixel(t[6], cfg.split) ELSE t[6])
    /\ t[8] = (IF params.grain.enable
               THEN FilmGrain_applyGrain(t[7], gx, gy, frameSeed, imgW, imgH,
                                         cfg.grain)
               ELSE t[7])
    /\ t[9] = (IF params.dither.enable
               THEN Dither_process(t[8], gx, gy, cfg.dither) ELSE t[8])

\* after Stage 0 and before any spatial effect, every pixel of the window
\* extended by the apron has been through the chain
C18_ChainFirst(skipHlp) ==
    (last = "stage0") =>
        /\ pc = "mist"
        /\ bufAW = RectW(win) + 2 * Apron(cfg, renderScale)
        /\ bufAH = RectH(win) + 2 * Apron(cfg, renderScale)
        /\ Len(trace) = bufAW * bufAH
        /\ Len(bufA) = bufAW * bufAH
        /\ \A i \in 0 .. bufAW * bufAH - 1 :
              /\ C18_ChainInOrder(At(trace, i), bufARect.x1 + (i % bufAW),
                                  bufARect.y1 + (i \div bufAW), skipHlp)
              /\ RGB(At(bufA, i)) = At(trace, i)[9]

\* a step of the invocation is followed by the next one of the order; a
\* disabled spatial effect leaves the buffer as it is and an enabled one
\* keeps its size; the destination is written by the output copy only
C18_StepInOrder ==
    /\ \A k \in 1 .. Len(C18_Order) - 1 :
          (pc = C18_Order[k] /\ pc' # pc) => pc' = C18_Order[k + 1]
    /\ (pc \in {"mist", "blur", "glow", "streak", "sharp", "halo", "ca", "vig"}
          /\ pc' # pc) =>
          /\ last' = pc
          /\ Len(bufA') = Len(bufA)
          /\ ~cfg[pc].enable => bufA' = bufA
    /\ (bufA' # bufA) => pc \in {"begin", "stage0", "mist", "blur", "glow",
                                  "streak", "sharp", "halo", "ca", "vig"}
    /\ (dst' # dst) => pc \in {"output", "next"}
    /\ (pc = "output" /\ pc' # pc) => (bufA' = bufA /\ last' = "output")

\* C18: fixed execution order.  In every invocation the per-pixel chain is
\* applied to each pixel of the whole apron-extended buffer in the order
\* Ingest Tweaks, Film Response, Tonal Engine, Color Energy, Highlight
\* Protection, Split Toning, Film Grain, Dither (each at most once, skipped
\* when disabled) before any spatial effect starts; then the enabled spatial
\* effects run in the order Mist, Dreamy Blur, Glow, Anamorphic Streak,
\* Sharpening, Halation, Chromatic Aberration, Vignette, each over the whole
\* buffer before the next begins; the output copy happens last.
C18_FixedOrder == [](C18_ChainFirst(TRUE)) /\ [][C18_StepInOrder]_vars

\* C18 with Highlight Protection applied whether or not its toggle is set:
\* the order itself
C18_OrderApart == [](C18_ChainFirst(FALSE)) /\ [][C18_StepInOrder]_vars

\* C21: no aliasing in any pass.  No call to boxBlurH, boxBlurV, boxBlurH1D
\* or ChromaticAberration::process made by a stage has its read buffer equal
\* to its write buffer, the passes inside the in-place gaussianBlur(bufB,
\* bufB, bufTemp) and the streak ping-pong included.
C21_NoAliasing ==
    \A k \in 1 .. Len(passes) : passes[k].rd # passes[k].wr

\* C21: Dreamy Blur has run its six box passes of the in-place blur of bufB
C21_Witness ==
    /\ last = "blur" /\ cfg.blur.enable
    /\ Len(passes) = 6
    /\ passes[1] = Pass("boxBlurH", "bufTemp", "bufB")
    /\ bufA # bufPrev

\* the sum of channel c of the samples i .. hi of a line of n samples that
\* starts at index base and advances by stride, each index clamped into
\* the line
RECURSIVE C22_ClampSum(_, _, _, _, _, _, _)
C22_ClampSum(src, base, stride, n, i, hi, c) ==
    IF i > hi THEN 0
    ELSE At(src, base + stride * Min(Max(i, 0), n - 1))[c]
         + C22_ClampSum(src, base, stride, n, i + 1, hi, c)

\* C22: the sliding-window box blur equals the replicate-edge reference.
\* For any w >= 1, h >= 1 and r >= 1 (r >= w or r >= h included) boxBlurH
\* (and boxBlurH1D) writes at each x the sum of the 2r+1 samples
\* row[clamp(i, 0, w-1)], i from x-r to x+r, divided by 2r+1; boxBlurV does
\* the same along each column, strip by strip; every index read or written
\* lies inside the buffer.
C22_BoxBlurReference ==
    (call.fn = "boxBlur" /\ ret.done) =>
        /\ \A i \in 0 .. call.w * call.h - 1 : \A c \in 1 .. 3 :
              LET x == i % call.w
                  y == i \div call.w
                  refH == C22_ClampSum(call.src, y * call.w, 1, call.w,
                                       x - call.r, x + call.r, c)
                  refV == C22_ClampSum(call.src, x, call.w, call.h,
                                       y - call.r, y + call.r, c)
              IN  /\ At(ret.H, i)[c] = refH \div (2 * call.r + 1)
                  /\ At(ret.H1D, i)[c] = refH \div (2 * call.r + 1)
                  /\ At(ret.V, i)[c] = refV \div (2 * call.r + 1)
        /\ Len(ret.H) = call.w * call.h
        /\ Len(ret.V) = call.w * call.h
        /\ ret.idxH = 0 .. call.w * call.h - 1
        /\ ret.idxV = 0 .. call.w * call.h - 1

\* C22: a buffer nine pixels wide (a full strip and a partial strip of one
\* column) blurred with a radius not smaller than its height
C22_Witness ==
    /\ call.fn = "boxBlur" /\ ret.done
    /\ call.w = 9 /\ call.h = 2 /\ call.r = 3
    /\ ret.V # call.src /\ ret.H # call.src /\ ret.H # ret.V

\* C23: output alpha is always 1.0.  After Stage 0 and after every spatial
\* effect the 4th channel of every pixel of the working buffer is 1.0, so
\* every destination pixel written by the row copy has 4th channel 1.0.
C23_AlphaOne ==
    /\ (last \in {"stage0", "mist", "blur", "glow", "streak", "sharp", "halo",
                  "ca", "vig", "output"}) =>
          \A i \in 1 .. Len(bufA) : bufA[i][4] = ONE
    /\ (last = "output") =>
          \A c \in written : At(dst, c[2] * FrameW + c[1])[4] = ONE

\* C23: a window written after Chromatic Aberration resampled the buffer,
\* the scratch buffer still holding the copy
C23_Witness ==
    /\ last = "output" /\ written # {}
    /\ cfg.ca.enable /\ cfg.ca.amount > 0
    /\ Len(bufB) = Len(bufA) /\ bufA # bufB

\* the working-buffer pixel of the global coordinate c for an apron a
C24_BufferPixel(c, a) ==
    At(bufA, (c[2] - win.y1 + a) * (RectW(win) + 2 * a) + (c[1] - win.x1 + a))

\* C24: the output window copy.  The copy leaves in each destination pixel
\* (x, y) of the requested window the working-buffer pixel of the same
\* global coordinate, index (x - window.x1 + apron, y - window.y1 + apron),
\* and writes no destination pixel outside the window, whatever the apron.
\* The pixels of the destination are those of the rows its image holds.
C24_WindowCopy ==
    [][(pc = "output" /\ pc' = "next") =>
          /\ \A c \in Coords :
                IF InWindow(c) /\ dstRowPresent(c[2])
                THEN At(dst', c[2] * FrameW + c[1])
                        = C24_BufferPixel(c, Apron(cfg, renderScale))
                ELSE At(dst', c[2] * FrameW + c[1])
                        = At(dst, c[2] * FrameW + c[1])
          /\ written' \subseteq {c \in Coords : InWindow(c)}]_vars

\* C24: the last quarter of the frame written from a buffer with the
\* smallest apron, the other quarters holding what their windows wrote
C24_Witness ==
    /\ last = "output" /\ pass = 2
    /\ win = Rect(0, 0, FrameW \div 2, FrameH \div 2)
    /\ Apron(cfg, renderScale) = 2
    /\ written = {c \in Coords : InWindow(c)}
    /\ \E c \in Coords : ~InWindow(c) /\ At(dst, c[2] * FrameW + c[1]) # <<0, 0, 0, 0>>
    /\ \E c, d \in written : C24_BufferPixel(c, 2) # C24_BufferPixel(d, 2)

\* the pixels of the destination outside the window of the running
\* invocation, and what the other invocations hold, stay as they are
C25_OwnWritesOnly ==
    (pc \in {"begin", "stage0", "mist", "blur", "glow", "streak", "sharp",
             "halo", "ca", "vig", "output"} /\ pc' # pc /\ parked' = parked) =>
        /\ \A c \in Coords :
              (At(dst', c[2] * FrameW + c[1]) # At(dst, c[2] * FrameW + c[1]))
                  => (pc = "output" /\ InWindow(c))
        /\ cfg' = cfg /\ params' = params /\ srcPix' = srcPix
        /\ renderScale' = renderScale /\ time' = time

\* a thread switch changes nothing but which invocation runs
C25_SwitchKeeps ==
    (parked' # parked /\ pass' = pass) =>
        /\ dst' = dst
        /\ {parked'[k] : k \in 1 .. Len(parked')} \cup {Running'}
              = {parked[k] : k \in 1 .. Len(parked)} \cup {Running}

\* C25: concurrent invocations are independent.  An invocation writes only
\* its own buffers and the destination pixels inside its own window, never
\* the configuration, the source image or the processor's fields; every
\* interleaving of the invocations on disjoint windows of a frame leaves
\* the destination that running them one after another leaves.
C25_Independent ==
    /\ [](pc = "done" => dst = dstFirst)
    /\ [][C25_OwnWritesOnly /\ C25_SwitchKeeps]_vars

\* C25: the second render has ended after an invocation was parked in the
\* middle of its spatial effects while another wrote its window
C25_Witness ==
    /\ pass = 2 /\ pc = "output" /\ Len(parked) = 2
    /\ \E k \in 1 .. Len(parked) :
          parked[k].pc \in {"blur", "glow", "streak", "sharp", "halo", "ca"}
    /\ \E k \in 1 .. Len(parked) : parked[k].pc = "next"
    /\ cfg.streak.enable
    /\ dst # Blank /\ dst # dstFirst

\* the vignette mask of pixel i of the working buffer
C26_Mask(i) ==
    computeMask((bufARect.x1 + (i % bufAW)) * Div(ONE, imgW * ONE),
                (bufARect.y1 + (i \div bufAW)) * Div(ONE, imgH * ONE),
                Div(imgW * ONE, Max(ONE, imgH * ONE)), cfg.vig)

\* the Vignette step has run in Defocus mode with a defocus amount, on a
\* buffer in which a pixel with a positive mask differs from a neighbour
C26_DefocusRan ==
    /\ last = "vig" /\ cfg.vig.enable /\ cfg.vig.type = eDefocus
    /\ cfg.vig.defocusAmount > 0 /\ ~cfg.vig.invert
    /\ \E i \in 0 .. bufPixels - 2 :
          /\ C26_Mask(i) > 0
          /\ (i + 1) % bufAW # 0
          /\ RGB(At(bufPrev, i)) # RGB(At(bufPrev, i + 1))

\* C26: the Defocus vignette.  With Vignette enabled in Defocus mode the
\* orchestrator blends a separately blurred copy of the working buffer into
\* it, weighted by the mask, so pixels where the mask is positive are
\* changed by the effect.
C26_DefocusBlends ==
    C26_DefocusRan =>
        \E i \in 0 .. bufPixels - 1 :
            C26_Mask(i) > 0 /\ At(bufA, i) # At(bufPrev, i)

\* C26: what the Vignette step does in Defocus mode: the working buffer and
\* both scratch buffers are as they were, and no blur was called
C26_DefocusUntouched ==
    C26_DefocusRan =>
        (bufA = bufPrev /\ passes = << >> /\ allocated = 2 * bufPixels)

(***************************************************************************)
(* C27: Split Toning preserves luminance.  For every pixel and every       *)
(* strength above zero, whatever the hues, the balance and the midtone     *)
(* saturation, the Rec.709 luminance of the pixel SplitToning::processPixel*)
(* returns equals the luminance of the pixel it was given, to the last     *)
(* place of the arithmetic.                                                *)
(***************************************************************************)
C27_LuminancePreserved ==
    (call.fn = "SplitToning" /\ ret.done /\ call.p.strength > 0)
        => Abs(Lum(ret.px) - Lum(call.px)) <= 1

\* a toned pixel: the call has returned and red and blue have both moved
C27_Witness ==
    /\ call.fn = "SplitToning"
    /\ ret.done
    /\ call.p.strength > 0
    /\ call.p.midtoneSaturation > 0
    /\ ret.px[1] # call.px[1]
    /\ ret.px[3] # call.px[3]
    /\ ret.px[2] # call.px[2]

(***************************************************************************)
(* C28: Chromatic Aberration resampling.  With an amount above zero,       *)
(* ChromaticAberration::process writes the green channel and the fourth    *)
(* channel of every pixel equal to the source pixel's at the same          *)
(* position, and the red and blue channels it writes are read at source    *)
(* positions whose indices lie in [0, w-1] x [0, h-1], wherever the centre *)
(* is, wherever the buffer lies and whatever the size of the image.        *)
(***************************************************************************)
C28_ReadsAt(i, ch) ==
    \E rd \in ret.reads :
        At(ret.dst, i)[ch] = At(call.src, rd[2] * call.w + rd[1])[ch]

C28_Resampling ==
    (call.fn = "ChromaticAberration" /\ ret.done /\ call.p.amount > 0)
        => /\ Len(ret.dst) = call.w * call.h
           /\ ret.reads \subseteq (0 .. call.w - 1) \X (0 .. call.h - 1)
           /\ \A i \in 0 .. call.w * call.h - 1 :
                  /\ At(ret.dst, i)[2] = At(call.src, i)[2]
                  /\ At(ret.dst, i)[4] = At(call.src, i)[4]
                  /\ C28_ReadsAt(i, 1)
                  /\ C28_ReadsAt(i, 3)

\* a call whose shifted positions fall off the buffer on both sides, so
\* that the clamp acts, and whose red channel moved
C28_Witness ==
    /\ call.fn = "ChromaticAberration"
    /\ ret.done
    /\ call.p.amount > 0
    /\ \E pos \in ret.samples : pos[1] < 0 \/ pos[2] < 0
    /\ \E pos \in ret.samples : pos[1] > call.w - 1 \/ pos[2] > call.h - 1
    /\ \E i \in 0 .. call.w * call.h - 1 :
           At(ret.dst, i)[1] # At(call.src, i)[1]

(***************************************************************************)
(* C29: the scratch buffer is allocated whenever it is used.  Every step   *)
(* that hands bufTemp to a blur (Mist, Dreamy Blur, Glow, Streak,          *)
(* Sharpening, Halation) runs for an effect that is part of the anySpatial *)
(* condition, so bufTemp has the size of the working buffers when the step *)
(* runs; and the Vignette step, which is not part of that condition,       *)
(* neither reads nor writes bufTemp, in Defocus mode as in the others.     *)
(***************************************************************************)
C29_UsesScratch(ps) ==
    \E k \in 1 .. Len(ps) : ps[k].rd = "bufTemp" \/ ps[k].wr = "bufTemp"

C29_ScratchSized ==
    C29_UsesScratch(passes)
        => /\ last \in {"mist", "blur", "glow", "streak", "sharp", "halo"}
           /\ anySpatial(cfg)
           /\ Len(bufTemp) = bufPixels
           /\ allocated = 3 * bufPixels

C29_VignetteStep ==
    (pc = "vig" /\ pc' = "output")
        => /\ bufTemp' = bufTemp
           /\ bufB' = bufB
           /\ ~C29_UsesScratch(passes')

C29_ScratchAllocated == [](C29_ScratchSized) /\ [][C29_VignetteStep]_vars

\* the Streak step has used the scratch buffer and nothing else is enabled
C29_Witness ==
    /\ last = "streak"
    /\ C29_UsesScratch(passes)
    /\ cfg.streak.enable
    /\ ~cfg.mist.enable /\ ~cfg.blur.enable /\ ~cfg.glow.enable
    /\ ~cfg.sharp.enable /\ ~cfg.halo.enable /\ ~cfg.ca.enable

\* the Vignette step has run in Defocus mode with no scratch buffer
C29_WitnessDefocus ==
    /\ last = "vig"
    /\ cfg.vig.enable
    /\ cfg.vig.type = eDefocus
    /\ ~anySpatial(cfg)
    /\ bufTemp = << >>

(***************************************************************************)
(* C30: the per-pixel stage is window-independent.  When no blur-based     *)
(* effect, no Anamorphic Streak and no Chromatic Aberration is enabled,    *)
(* the value written for a destination pixel is a function of the source   *)
(* pixel at its frame coordinate, that coordinate, the frame time, the     *)
(* region of definition and the configuration, and not of the window it    *)
(* was processed in; so the frame rendered as any grid of windows equals   *)
(* the frame rendered as one window, for the per-pixel modules, grain,     *)
(* dither and vignette.                                                    *)
(***************************************************************************)
\* the pixel of frame coordinate c computed without any window
C30_Pixel(c) ==
    LET t == Stage0Pixel(c[1], c[2], cfg, frameSeed, imgW, imgH)
        V == computeMask(c[1] * Div(ONE, imgW * ONE), c[2] * Div(ONE, imgH * ONE),
                         Div(imgW * ONE, Max(ONE, imgH * ONE)), cfg.vig)
    IN  RGBA(IF cfg.vig.enable
             THEN Vignette_processPixel(t[9], V, 0, cfg.vig) ELSE t[9], ONE)

C30_WindowIndependent ==
    /\ (last = "output" /\ ~anySpatial(cfg)) =>
           \A c \in written : DstAt(c) = C30_Pixel(c)
    /\ (pc = "done" /\ pass = 2 /\ ~anySpatial(Resolve(params))) =>
           dst = dstFirst

\* a frame with grain rendered as four windows, the last of them written,
\* whose pixels differ from the source
C30_Witness ==
    /\ pc = "done"
    /\ pass = 2
    /\ ~anySpatial(Resolve(params))
    /\ params.grain.enable
    /\ win = Rect(0, 0, FrameW \div 2, FrameH \div 2)
    /\ dst = dstFirst
    /\ \E c \in Coords : RGB(DstAt(c)) # SrcAt(c)

====
